---- MODULE Spec2Model ----
(***************************************************************************)
(* FitTrackApp (fitnesspulse-goal-tracker): the request middleware, the    *)
(* database connection manager, the auth endpoint and the goals / goal     *)
(* item / progress endpoints, modelled as state machines.                  *)
(*                                                                         *)
(* Four specifications share this module, one per component:               *)
(*   SpecMw    middleware.ts                                               *)
(*   SpecDb    lib/db.ts (connectDB and its promise cache)                 *)
(*   SpecAuth  POST /api/auth (signup, login) over the users collection    *)
(*   SpecGoals /api/goals, /api/goals/:goalId, /api/progress over the      *)
(*             goals and progress collections                              *)
(* Each specification leaves the variables of the other components at      *)
(* their initial values.                                                   *)
(***************************************************************************)
EXTENDS Integers, Sequences, FiniteSets, TLC

VARIABLES
    \* ---- middleware.ts
    mwSecret,      \* process.env.JWT_SECRET as the middleware sees it
    mwNow,         \* the clock verify() compares the exp claim with
    mwReq,         \* the request being answered: [path, cookie]
    mwResp,        \* the middleware's answer to mwReq
    \* ---- lib/db.ts
    cached,        \* globalThis.mongooseCache: [conn, promise], 0 is null
    attempts,      \* the promises mongoose.connect() returned: status, awaiters
    callers,       \* each connectDB() caller's position
    jobs,          \* the job queue: handler invocations and await continuations
    \* ---- app/api/auth (POST) and models/User.ts
    users,         \* the users collection
    authEnv,       \* process.env: JWT_SECRET, JWT_EXPIRES_IN, NODE_ENV
    authSlot,      \* the POST /api/auth requests in flight, one per slot
    \* ---- app/api/goals, app/api/goals/[goalId], app/api/progress
    goalSecret,    \* process.env.JWT_SECRET as these routes see it
    goals,         \* the goals collection
    progress,      \* the progress collection
    created,       \* the owner each goal was inserted with, by goal id
    logged,        \* how many progress entries have been inserted so far
    goalSlot,      \* the requests to these routes in flight, one per slot
    \* ---- lib/utils: calculateCompletionPercentage
    calcArgs,      \* the arguments of a call: <<currentValue, targetValue>>
    calcResult,    \* what the call returned
    \* ---- components/ProgressHistory.tsx
    histProps,     \* the progressEntries prop, the caller's array
    histView,      \* what the component rendered
    \* ---- context/AuthContext
    ctx,           \* the provider's state: user, isAuthenticated, isLoading, error
    ctxCalls,      \* the calls of the context's functions in flight, one per slot
    ctxNav,        \* the routes handed to router.push(), in order
    ctxInvoked,    \* how many calls have been made so far
    \* ---- app/goals/[goalId] page and components/ProgressLogForm.tsx
    pageGoalId,    \* useParams().goalId
    page,          \* the page's state: goal, progressEntries, isLoading, error, ...
    pageCall,      \* where the page's handlers are, and the payload posted
    form,          \* what the form's fields hold
    formSubmitted, \* how many times Log Progress has been pressed
    pageLast       \* the last submission: its fields and how it ended

mwVars == <<mwSecret, mwNow, mwReq, mwResp>>
dbVars == <<cached, attempts, callers, jobs>>
authVars == <<users, authEnv, authSlot>>
goalVars == <<goalSecret, goals, progress, created, logged, goalSlot>>

serverVars == <<mwVars, dbVars, authVars, goalVars>>

calcVars == <<calcArgs, calcResult>>
histVars == <<histProps, histView>>
ctxVars == <<ctx, ctxCalls, ctxNav, ctxInvoked>>
pageVars == <<pageGoalId, page, pageCall, form, formSubmitted, pageLast>>
clientVars == <<calcVars, histVars, ctxVars, pageVars>>

vars == <<serverVars, clientVars>>

(***************************************************************************)
(* Bounds of the model.                                                    *)
(***************************************************************************)
MaxTime == 2
MaxAttempts == 3
MaxCallers == 3
MaxAuthSlots == 2
MaxGoals == 2
MaxEntries == 2
MaxGoalSlots == 2
MaxHistLen == 3
MaxCtxSlots == 2
MaxCtxInvocations == 3

(***************************************************************************)
(* Tokens.  A cookie value is a record in every case, so that any two can  *)
(* be compared: no cookie at all, a cookie with an empty value, a string   *)
(* that is no JWT, or a JWT signed with `key`, expiring at `exp`, whose    *)
(* payload is `payload` (what the userId claim holds).                     *)
(***************************************************************************)
NoSecret == "undefined"
ServerSecret == "k-server"
OtherSecret == "k-other"

NoCookie == [kind |-> "absent", key |-> "", exp |-> 0, claim |-> "none", userId |-> ""]
EmptyCookie == [kind |-> "empty", key |-> "", exp |-> 0, claim |-> "none", userId |-> ""]
Garbage == [kind |-> "garbage", key |-> "", exp |-> 0, claim |-> "none", userId |-> ""]

Jwt(key, exp, claim, userId) ==
    [kind |-> "jwt", key |-> key, exp |-> exp, claim |-> claim, userId |-> userId]

\* request.cookies.get('access_token')?.value followed by `!token`:
\* undefined (no cookie) and '' (a cookie with an empty value) are both falsy.
TokenMissing(cookie) == cookie.kind \in {"absent", "empty"}

\* `!jwtSecret`
SecretMissing(secret) == secret = NoSecret

\* jsonwebtoken's verify(token, secret): a string that is no JWT and a JWT
\* whose signature was not made with `secret` throw JsonWebTokenError
\* ("invalid"); a well signed JWT whose exp has passed throws
\* TokenExpiredError ("expired"); the signature is checked before exp.
Verify(token, secret, now) ==
    IF token.kind # "jwt" THEN "invalid"
    ELSE IF token.key # secret THEN "invalid"
    ELSE IF now >= token.exp THEN "expired"
    ELSE "ok"

(***************************************************************************)
(* lib/db.ts: connectDB() and the cache {conn, promise}.                   *)
(*                                                                         *)
(* An attempt is the promise `mongoose.connect(...).then(...)` of one      *)
(* call; attempts are numbered 1..MaxAttempts and 0 stands for null.  The  *)
(* connection an attempt resolves to carries the attempt's number.         *)
(* connectDB is an async function: a call runs to its first await in one   *)
(* job, and the code after the await runs in a later job, queued when the  *)
(* awaited promise settles (at once, if it has settled already).  Jobs run *)
(* first in, first out.                                                    *)
(***************************************************************************)
Attempts == 1..MaxAttempts
Callers == 1..MaxCallers

CallJob(c) == [kind |-> "call", caller |-> c]
ResumeJob(c) == [kind |-> "resume", caller |-> c]

CallerIdle == [pc |-> "idle", awaiting |-> 0, result |-> 0]

DbInit ==
    /\ cached = [conn |-> 0, promise |-> 0]
    /\ attempts = [a \in Attempts |-> [status |-> "unused", awaiters |-> <<>>]]
    /\ callers = [c \in Callers |-> CallerIdle]
    /\ jobs = <<>>

DbUnused == DbInit

\* The continuations of the callers awaiting a promise, in the order in
\* which they awaited it.
RECURSIVE ResumeJobs(_)
ResumeJobs(awaiters) ==
    IF awaiters = <<>> THEN <<>>
    ELSE <<ResumeJob(Head(awaiters))>> \o ResumeJobs(Tail(awaiters))

\* A route handler is invoked: its `await connectDB()` is about to run.
DbArrive(c) ==
    /\ callers[c].pc \in {"idle", "returned", "threw"}
    /\ callers' = [callers EXCEPT ![c] = [pc |-> "scheduled", awaiting |-> 0, result |-> 0]]
    /\ jobs' = Append(jobs, CallJob(c))
    /\ UNCHANGED <<cached, attempts, mwVars, authVars, goalVars, clientVars>>

\* `if (cached.conn) return cached.conn;`
DbCallCached ==
    /\ jobs # <<>> /\ Head(jobs).kind = "call"
    /\ cached.conn # 0
    /\ LET c == Head(jobs).caller IN
         callers' = [callers EXCEPT ![c] = [pc |-> "returned", awaiting |-> 0, result |-> cached.conn]]
    /\ jobs' = Tail(jobs)
    /\ UNCHANGED <<cached, attempts, mwVars, authVars, goalVars, clientVars>>

\* The promise the join branch awaits.
JoinTarget(cache) == cache.promise

\* (mutant) the join branch taken only for a cached connection
JoinEnabled_Never(cache) == FALSE

\* `if (cached.promise)`
JoinEnabled(cache) == cache.promise # 0

\* `if (cached.promise) { ... await cached.promise`: the caller joins the
\* cached attempt; if that promise has settled already its continuation is
\* queued at once.
DbCallJoin ==
    /\ jobs # <<>> /\ Head(jobs).kind = "call"
    /\ cached.conn = 0
    /\ JoinEnabled(cached)
    /\ LET c == Head(jobs).caller
           p == JoinTarget(cached)
       IN  /\ callers' = [callers EXCEPT ![c] = [pc |-> "awaitJoin", awaiting |-> p, result |-> 0]]
           /\ IF attempts[p].status = "pending"
              THEN /\ attempts' = [attempts EXCEPT ![p].awaiters = Append(@, c)]
                   /\ jobs' = Tail(jobs)
              ELSE /\ attempts' = attempts
                   /\ jobs' = Append(Tail(jobs), ResumeJob(c))
    /\ UNCHANGED <<cached, mwVars, authVars, goalVars, clientVars>>

\* `cached.promise = mongoose.connect(...).then(...); ... await cached.promise`
DbCallNew ==
    /\ jobs # <<>> /\ Head(jobs).kind = "call"
    /\ cached.conn = 0
    /\ ~JoinEnabled(cached)
    /\ \E a \in Attempts :
         /\ attempts[a].status = "unused"
         /\ \A b \in Attempts : b < a => attempts[b].status # "unused"
         /\ LET c == Head(jobs).caller IN
              /\ attempts' = [attempts EXCEPT ![a] = [status |-> "pending", awaiters |-> <<c>>]]
              /\ cached' = [cached EXCEPT !.promise = a]
              /\ callers' = [callers EXCEPT ![c] = [pc |-> "awaitNew", awaiting |-> a, result |-> 0]]
    /\ jobs' = Tail(jobs)
    /\ UNCHANGED <<mwVars, authVars, goalVars, clientVars>>

\* The driver settles an attempt: the connection is up, or it failed.
DbSettle(a, ok) ==
    /\ attempts[a].status = "pending"
    /\ attempts' = [attempts EXCEPT ![a] =
                      [status |-> IF ok THEN "fulfilled" ELSE "rejected", awaiters |-> <<>>]]
    /\ jobs' = jobs \o ResumeJobs(attempts[a].awaiters)
    /\ UNCHANGED <<cached, callers, mwVars, authVars, goalVars, clientVars>>

\* What the catch block of the join branch leaves in the cache.
JoinCatchCache(cache, p) == [cache EXCEPT !.promise = 0]

\* (mutant) a catch block that leaves the failed promise in the cache
NewCatchCache_Keep(cache, p) == cache

\* What the catch block of the new-attempt branch leaves in the cache.
NewCatchCache(cache, p) == [cache EXCEPT !.promise = 0]

\* After `cached.conn = await cached.promise` of the caller that started the
\* attempt: the connection is cached, or the catch block clears the promise.
DbResumeNew ==
    /\ jobs # <<>> /\ Head(jobs).kind = "resume"
    /\ LET c == Head(jobs).caller
           p == callers[c].awaiting
       IN  /\ callers[c].pc = "awaitNew"
           /\ IF attempts[p].status = "fulfilled"
              THEN /\ cached' = [cached EXCEPT !.conn = p]
                   /\ callers' = [callers EXCEPT ![c] = [pc |-> "returned", awaiting |-> 0, result |-> p]]
              ELSE /\ cached' = NewCatchCache(cached, p)
                   /\ callers' = [callers EXCEPT ![c] = [pc |-> "threw", awaiting |-> 0, result |-> 0]]
    /\ jobs' = Tail(jobs)
    /\ UNCHANGED <<attempts, mwVars, authVars, goalVars, clientVars>>

\* After `const conn = await cached.promise` of a caller that joined: it
\* returns the connection, or its catch block clears the promise and throws.
DbResumeJoin ==
    /\ jobs # <<>> /\ Head(jobs).kind = "resume"
    /\ LET c == Head(jobs).caller
           p == callers[c].awaiting
       IN  /\ callers[c].pc = "awaitJoin"
           /\ IF attempts[p].status = "fulfilled"
              THEN /\ cached' = cached
                   /\ callers' = [callers EXCEPT ![c] = [pc |-> "returned", awaiting |-> 0, result |-> p]]
              ELSE /\ cached' = JoinCatchCache(cached, p)
                   /\ callers' = [callers EXCEPT ![c] = [pc |-> "threw", awaiting |-> 0, result |-> 0]]
    /\ jobs' = Tail(jobs)
    /\ UNCHANGED <<attempts, mwVars, authVars, goalVars, clientVars>>

NextDb ==
    \/ \E c \in Callers : DbArrive(c)
    \/ DbCallCached
    \/ DbCallJoin
    \/ DbCallNew
    \/ \E a \in Attempts, ok \in BOOLEAN : DbSettle(a, ok)
    \/ DbResumeNew
    \/ DbResumeJoin

Pending == { a \in Attempts : attempts[a].status = "pending" }

(***************************************************************************)
(* middleware.ts                                                           *)
(***************************************************************************)
\* A pathname as its segments: /api/goals/g1 is <<"api", "goals", "g1">>.
MwPaths ==
    { <<"dashboard">>, <<"dashboard", "goals">>, <<"api", "goals">>,
      <<"api", "goals", "g1">>, <<"api", "progress">>,
      <<"login">>, <<"api", "auth">> }

MwCookies ==
    {NoCookie, EmptyCookie, Garbage}
      \cup { Jwt(k, e, "string", "u1") : k \in {ServerSecret, OtherSecret}, e \in 1..MaxTime }

\* config.matcher: /dashboard/:path*, /api/goals/:path*, /api/progress/:path*
MwMatches(path) ==
    \/ Len(path) >= 1 /\ path[1] = "dashboard"
    \/ Len(path) >= 2 /\ path[1] = "api" /\ path[2] \in {"goals", "progress"}

\* request.nextUrl.pathname.startsWith('/api/')
IsApiPath(path) == Len(path) >= 2 /\ path[1] = "api"

MwJson(status, message) ==
    [kind |-> "json", status |-> status, success |-> FALSE, message |-> message,
     location |-> "none"]
MwRedirectLogin ==
    [kind |-> "redirect", status |-> 307, success |-> FALSE, message |-> "none",
     location |-> "/login"]
MwNext ==
    [kind |-> "next", status |-> 200, success |-> TRUE, message |-> "none",
     location |-> "none"]
MwNone ==
    [kind |-> "none", status |-> 0, success |-> FALSE, message |-> "none",
     location |-> "none"]

\* The body of middleware(request).
MwRejectMissing(path) ==
    IF IsApiPath(path) THEN MwJson(401, "Authentication required")
    ELSE MwRedirectLogin

\* (mutant) the catch branch without its isApiPath test
MwRejectInvalid_AlwaysJson(path) == MwJson(401, "Invalid or expired token")

MwRejectInvalid(path) ==
    IF IsApiPath(path) THEN MwJson(401, "Invalid or expired token")
    ELSE MwRedirectLogin

MwSecretMissing == MwJson(500, "Internal Server Error: JWT secret missing")

\* (mutant) the secret check moved in front of the token check
Middleware_SecretFirst(path, cookie, secret, now) ==
    IF SecretMissing(secret) THEN MwSecretMissing
    ELSE IF TokenMissing(cookie) THEN MwRejectMissing(path)
    ELSE IF Verify(cookie, secret, now) = "ok" THEN MwNext
    ELSE MwRejectInvalid(path)

\* (mutant) a missing secret answered like a rejected token
Middleware_SecretRedirects(path, cookie, secret, now) ==
    IF TokenMissing(cookie) THEN MwRejectMissing(path)
    ELSE IF SecretMissing(secret)
         THEN (IF IsApiPath(path) THEN MwSecretMissing ELSE MwRedirectLogin)
    ELSE IF Verify(cookie, secret, now) = "ok" THEN MwNext
    ELSE MwRejectInvalid(path)

Middleware(path, cookie, secret, now) ==
    IF TokenMissing(cookie) THEN MwRejectMissing(path)
    ELSE IF SecretMissing(secret) THEN MwSecretMissing
    ELSE IF Verify(cookie, secret, now) = "ok" THEN MwNext
    ELSE MwRejectInvalid(path)

MwIdleReq == [path |-> <<>>, cookie |-> NoCookie, at |-> 0]

MwInit ==
    /\ mwSecret \in {NoSecret, ServerSecret}
    /\ mwNow = 0
    /\ mwReq = MwIdleReq
    /\ mwResp = MwNone

MwUnused ==
    /\ mwSecret = NoSecret
    /\ mwNow = 0
    /\ mwReq = MwIdleReq
    /\ mwResp = MwNone

\* A request to a path of the matcher: the middleware answers it.
MwHandle ==
    /\ \E path \in MwPaths, cookie \in MwCookies :
         /\ MwMatches(path)
         /\ mwReq' = [path |-> path, cookie |-> cookie, at |-> mwNow]
         /\ mwResp' = Middleware(path, cookie, mwSecret, mwNow)
    /\ UNCHANGED <<mwSecret, mwNow, dbVars, authVars, goalVars, clientVars>>

\* A request to a path outside the matcher never runs the middleware.
MwBypass ==
    /\ \E path \in MwPaths, cookie \in MwCookies :
         /\ ~MwMatches(path)
         /\ mwReq' = [path |-> path, cookie |-> cookie, at |-> mwNow]
         /\ mwResp' = MwNext
    /\ UNCHANGED <<mwSecret, mwNow, dbVars, authVars, goalVars, clientVars>>

\* Time passes (tokens expire).
MwTick ==
    /\ mwNow < MaxTime
    /\ mwNow' = mwNow + 1
    /\ UNCHANGED <<mwSecret, mwReq, mwResp, dbVars, authVars, goalVars, clientVars>>

NextMw == MwHandle \/ MwBypass \/ MwTick

(***************************************************************************)
(* Strings the code converts are sequences of one-character strings.       *)
(***************************************************************************)
\* String.prototype.toLowerCase, on the letters the model uses.
LowerChar(ch) ==
    CASE ch = "A" -> "a"
      [] ch = "B" -> "b"
      [] OTHER -> ch

ToLower(str) == [i \in 1..Len(str) |-> LowerChar(str[i])]

\* String.prototype.trim (zod's .trim(), mongoose's trim: true)
RECURSIVE TrimLeft(_)
TrimLeft(str) ==
    IF str # <<>> /\ Head(str) = " " THEN TrimLeft(Tail(str)) ELSE str

RECURSIVE TrimRight(_)
TrimRight(str) ==
    IF str # <<>> /\ str[Len(str)] = " " THEN TrimRight(SubSeq(str, 1, Len(str) - 1))
    ELSE str

Trim(str) == TrimRight(TrimLeft(str))

(***************************************************************************)
(* models/User.ts                                                          *)
(***************************************************************************)
\* An address is written as its local part only: <<"a">> stands for
\* a@example.com.  zod's .email() and the schema's match: the part is not
\* empty and holds no white space.
EmailFormatOk(email) == email # <<>> /\ \A i \in 1..Len(email) : email[i] # " "

\* The schema's setters on email: lowercase: true, trim: true.
SchemaEmail(email) == ToLower(Trim(email))

\* The pre-save hook: hash(this.password, salt).
Hash(password) == <<"bcrypt", password>>

\* UserSchema.methods.comparePassword: compare(candidate, this.password).
ComparePassword(candidate, stored) == stored = Hash(candidate)

\* The unique index on email: an insert of `email` is refused (E11000).
DuplicateKey(coll, email) == \E u \in coll : u.email = email

\* _id values, in the order in which documents are created.
UserIds == <<"u1", "u2", "u3">>

\* UserModel.create({ name, email, password }): the document it stores.
NewUser(coll, name, email, password) ==
    [id |-> UserIds[Cardinality(coll) + 1],
     name |-> Trim(name),
     email |-> SchemaEmail(email),
     password |-> Hash(password),
     createdAt |-> Cardinality(coll) + 1,
     updatedAt |-> Cardinality(coll) + 1]

(***************************************************************************)
(* app/api/auth: POST (signup, login).                                     *)
(***************************************************************************)
AuthSlots == 1..MaxAuthSlots

Null == -1

Digits == {"0", "1", "2", "3", "4", "5", "6", "7", "8", "9"}

DigitValue(ch) ==
    CASE ch = "0" -> 0 [] ch = "1" -> 1 [] ch = "2" -> 2 [] ch = "3" -> 3
      [] ch = "4" -> 4 [] ch = "5" -> 5 [] ch = "6" -> 6 [] ch = "7" -> 7
      [] ch = "8" -> 8 [] ch = "9" -> 9

\* parseInt(match[1], 10)
RECURSIVE ParseInt(_)
ParseInt(digits) ==
    IF digits = <<>> THEN 0
    ELSE 10 * ParseInt(SubSeq(digits, 1, Len(digits) - 1)) + DigitValue(digits[Len(digits)])

\* (mutant) every unit counted as seconds
ParseJwtExpiresIn_Seconds(expiresIn) ==
    LET str == Trim(expiresIn)
        n == Len(str)
    IN  IF n < 2 THEN Null
        ELSE IF str[n] \notin {"d", "h", "m", "s"} THEN Null
        ELSE IF \E i \in 1..(n - 1) : str[i] \notin Digits THEN Null
        ELSE LET value == ParseInt(SubSeq(str, 1, n - 1)) IN
             IF value <= 0 THEN Null ELSE value

\* parseJwtExpiresIn: /^(\d+)([dhms])$/ on the trimmed string.
ParseJwtExpiresIn(expiresIn) ==
    LET str == Trim(expiresIn)
        n == Len(str)
    IN  IF n < 2 THEN Null
        ELSE IF str[n] \notin {"d", "h", "m", "s"} THEN Null
        ELSE IF \E i \in 1..(n - 1) : str[i] \notin Digits THEN Null
        ELSE LET value == ParseInt(SubSeq(str, 1, n - 1)) IN
             IF value <= 0 THEN Null
             ELSE CASE str[n] = "d" -> value * 24 * 60 * 60
                    [] str[n] = "h" -> value * 60 * 60
                    [] str[n] = "m" -> value * 60
                    [] str[n] = "s" -> value

AuthResp(status, success, message) ==
    [status |-> status, success |-> success, message |-> message,
     user |-> {}, cookies |-> {}]

AuthNoResp == AuthResp(0, FALSE, "none")

\* The request bodies tried.  parse: request.json() succeeds.
AuthBody(action, name, email, password) ==
    [parse |-> TRUE, action |-> action, name |-> name, email |-> email,
     password |-> password]

AuthEmails == { <<"a">>, <<"A">>, <<" ", "a">>, <<"b">> }

AuthBodies ==
    { AuthBody("signup", <<"A", "n", "n">>, e, pw) : e \in AuthEmails, pw \in {"secret1", "secret2"} }
      \cup { AuthBody("signup", <<" ">>, <<"a">>, "secret1"),
             AuthBody("signup", <<"A", "n", "n">>, <<>>, "secret1"),
             AuthBody("signup", <<"A", "n", "n">>, <<"a">>, "short") }
      \cup { AuthBody("login", <<>>, e, pw) : e \in AuthEmails, pw \in {"secret1", "secret2"} }
      \cup { AuthBody("login", <<>>, <<"a", " ", "b">>, "secret1"),
             AuthBody("login", <<>>, <<"a">>, ""),
             AuthBody("logout", <<>>, <<"a">>, "secret1"),
             [AuthBody("login", <<>>, <<"a">>, "secret1") EXCEPT !.parse = FALSE] }

\* signupSchema
SignupValid(body) ==
    /\ Len(Trim(body.name)) >= 1
    /\ EmailFormatOk(Trim(body.email))
    /\ Len(body.password) >= 6

\* loginSchema
LoginValid(body) ==
    /\ EmailFormatOk(Trim(body.email))
    /\ Len(body.password) >= 1

\* The environments tried.  An unset variable and an empty one are both falsy.
NoExpires == <<>>

AuthEnvs ==
    { [jwtSecret |-> ServerSecret, jwtExpiresIn |-> <<"1", "d">>, nodeEnv |-> "production"],
      [jwtSecret |-> ServerSecret, jwtExpiresIn |-> <<"0", "d">>, nodeEnv |-> "development"],
      [jwtSecret |-> NoSecret, jwtExpiresIn |-> <<"2", "h">>, nodeEnv |-> "development"],
      [jwtSecret |-> ServerSecret, jwtExpiresIn |-> NoExpires, nodeEnv |-> "development"],
      [jwtSecret |-> ServerSecret, jwtExpiresIn |-> <<"2", "h">>, nodeEnv |-> "development"],
      [jwtSecret |-> ServerSecret, jwtExpiresIn |-> <<"3", "0", "m">>, nodeEnv |-> "development"],
      [jwtSecret |-> ServerSecret, jwtExpiresIn |-> <<"4", "5", "s">>, nodeEnv |-> "development"],
      [jwtSecret |-> ServerSecret, jwtExpiresIn |-> <<"1", "w">>, nodeEnv |-> "development"],
      [jwtSecret |-> ServerSecret, jwtExpiresIn |-> <<"0", "0", "h">>, nodeEnv |-> "development"] }

\* What a handler step leaves behind: where the request stands, its response
\* if it has one, and whether a storage or signing call of the step failed.
AuthDone(resp, fault) == [pc |-> "done", resp |-> resp, fault |-> fault]
AuthGoOn(pc) == [pc |-> pc, resp |-> AuthNoResp, fault |-> FALSE]

\* `existingUser` of the signup branch: UserModel.findOne({ email: email.toLowerCase() })
SignupExisting(coll, email) == { u \in coll : u.email = ToLower(email) }

EmailInUse == AuthResp(409, FALSE, "Email already in use.")

\* The signup branch up to and including the existence check.
SignupCheck(coll, body, fault) ==
    IF ~SignupValid(body) THEN AuthDone(AuthResp(400, FALSE, "Invalid signup data."), FALSE)
    ELSE IF fault = "query"
    THEN AuthDone(AuthResp(500, FALSE, "Internal Server Error: Could not create user."), TRUE)
    ELSE IF SignupExisting(coll, Trim(body.email)) # {} THEN AuthDone(EmailInUse, FALSE)
    ELSE AuthGoOn("create")

\* (mutant) the catch block without the 11000 test
SignupDuplicate_Generic == AuthResp(500, FALSE, "Internal Server Error: Could not create user.")

\* The catch block of the signup branch, for an E11000 on email.
SignupDuplicate == EmailInUse

\* (mutant) a response that tells the caller the account does not exist
LoginUnknownUser_NotFound == AuthResp(404, FALSE, "User not found.")

\* The response to a login the user record was not found for.
LoginUnknownUser == AuthResp(401, FALSE, "Invalid email or password.")

\* The response to a login whose password does not match.
LoginWrongPassword == AuthResp(401, FALSE, "Invalid email or password.")

\* (mutant) the whole document, password hash included
PublicUser_WithPassword(user) == user

\* `userData`: the user without the password.
PublicUser(user) ==
    [id |-> user.id, name |-> user.name, email |-> user.email,
     createdAt |-> user.createdAt, updatedAt |-> user.updatedAt]

\* response.cookies.set('access_token', token, {...})
SessionCookie(token, env, maxAge) ==
    [name |-> "access_token", value |-> token, httpOnly |-> TRUE,
     secure |-> (env.nodeEnv = "production"), sameSite |-> "lax", path |-> "/",
     maxAge |-> maxAge]

\* The login branch.
Login(coll, env, body, fault) ==
    IF ~LoginValid(body) THEN AuthDone(AuthResp(400, FALSE, "Invalid login data."), FALSE)
    ELSE IF fault = "query"
    THEN AuthDone(AuthResp(500, FALSE, "Internal Server Error during login process."), TRUE)
    ELSE LET found == { u \in coll : u.email = ToLower(Trim(body.email)) } IN
      IF found = {} THEN AuthDone(LoginUnknownUser, FALSE)
      ELSE LET user == CHOOSE u \in found : TRUE IN
        IF ~ComparePassword(body.password, user.password)
        THEN AuthDone(LoginWrongPassword, FALSE)
        ELSE IF env.jwtSecret = NoSecret \/ env.jwtExpiresIn = NoExpires
        THEN AuthDone(AuthResp(500, FALSE, "Internal Server Error: JWT configuration missing."), FALSE)
        ELSE IF ParseJwtExpiresIn(env.jwtExpiresIn) = Null
        THEN AuthDone(AuthResp(500, FALSE, "Internal Server Error: Invalid JWT expiration format."), FALSE)
        ELSE IF fault = "sign"
        THEN AuthDone(AuthResp(500, FALSE, "Internal Server Error: Could not create session."), TRUE)
        ELSE AuthDone(
               [AuthResp(200, TRUE, "none") EXCEPT
                  !.user = {PublicUser(user)},
                  !.cookies = {SessionCookie(
                                 Jwt(env.jwtSecret, ParseJwtExpiresIn(env.jwtExpiresIn), "string", user.id),
                                 env, ParseJwtExpiresIn(env.jwtExpiresIn))}],
               FALSE)

\* POST up to its first write: connectDB, request.json(), actionSchema, then
\* the branch of the action.
AuthPost(coll, env, body, fault) ==
    IF fault = "connect"
    THEN AuthDone(AuthResp(500, FALSE, "Internal Server Error: Could not connect to database."), TRUE)
    ELSE IF ~body.parse
    THEN AuthDone(AuthResp(400, FALSE, "Invalid request body: Could not parse JSON."), FALSE)
    ELSE IF body.action \notin {"signup", "login"}
    THEN AuthDone(AuthResp(400, FALSE, "Invalid action specified."), FALSE)
    ELSE IF body.action = "signup" THEN SignupCheck(coll, body, fault)
    ELSE Login(coll, env, body, fault)

AuthIdleBody == AuthBody("none", <<>>, <<>>, "")

AuthIdle ==
    [pc |-> "idle", body |-> AuthIdleBody, step |-> "none", fault |-> FALSE,
     resp |-> AuthNoResp]

AuthInit ==
    /\ users = {}
    /\ authEnv \in AuthEnvs
    /\ authSlot = [p \in AuthSlots |-> AuthIdle]

AuthUnused ==
    /\ users = {}
    /\ authEnv = [jwtSecret |-> NoSecret, jwtExpiresIn |-> NoExpires, nodeEnv |-> "development"]
    /\ authSlot = [p \in AuthSlots |-> AuthIdle]

\* A response stays in its slot until it has been sent; nothing else happens
\* in between.
AuthNoneDone == \A p \in AuthSlots : authSlot[p].pc # "done"

\* A POST /api/auth request arrives and runs up to its response or, for a
\* signup that passed the existence check, up to `await UserModel.create`.
AuthStart(p) ==
    /\ AuthNoneDone
    /\ authSlot[p].pc = "idle"
    /\ \E body \in AuthBodies, fault \in {"none", "connect", "query", "sign"} :
         LET out == AuthPost(users, authEnv, body, fault) IN
           /\ out.fault = (fault # "none")
           /\ authSlot' = [authSlot EXCEPT ![p] =
                [pc |-> out.pc, body |-> body, step |-> "check", fault |-> out.fault,
                 resp |-> out.resp]]
    /\ UNCHANGED <<users, authEnv, mwVars, dbVars, goalVars, clientVars>>

\* `await UserModel.create({ name, email, password })` and what follows it.
AuthSignupCreate(p) ==
    /\ AuthNoneDone
    /\ authSlot[p].pc = "create"
    /\ \E fault \in BOOLEAN :
         LET body == authSlot[p].body
             name == Trim(body.name)
             email == Trim(body.email)
         IN  IF fault
             THEN /\ users' = users
                  /\ authSlot' = [authSlot EXCEPT ![p].pc = "done", ![p].step = "create",
                       ![p].fault = TRUE,
                       ![p].resp = AuthResp(500, FALSE, "Internal Server Error: Could not create user.")]
             ELSE IF DuplicateKey(users, SchemaEmail(email))
             THEN /\ users' = users
                  /\ authSlot' = [authSlot EXCEPT ![p].pc = "done", ![p].step = "create",
                       ![p].resp = SignupDuplicate]
             ELSE /\ users' = users \cup {NewUser(users, name, email, body.password)}
                  /\ authSlot' = [authSlot EXCEPT ![p].pc = "done", ![p].step = "create",
                       ![p].resp = AuthResp(201, TRUE, "Signup successful. Please login.")]
    /\ UNCHANGED <<authEnv, mwVars, dbVars, goalVars, clientVars>>

\* The response is sent and the slot is free again.
AuthSend(p) ==
    /\ authSlot[p].pc = "done"
    /\ authSlot' = [authSlot EXCEPT ![p] = AuthIdle]
    /\ UNCHANGED <<users, authEnv, mwVars, dbVars, goalVars, clientVars>>

NextAuth ==
    \/ \E p \in AuthSlots : AuthStart(p)
    \/ \E p \in AuthSlots : AuthSignupCreate(p)
    \/ \E p \in AuthSlots : AuthSend(p)

(***************************************************************************)
(* app/api/goals/route.ts, app/api/goals/[goalId]/route.ts and             *)
(* app/api/progress/route.ts over the goals and progress collections.      *)
(*                                                                         *)
(* A goal id is a number: 0 stands for a string that is no ObjectId, and   *)
(* 1..MaxGoals + 1 for well formed ObjectIds, of which MaxGoals + 1 is     *)
(* never given to a goal.  Of a goal document the model keeps _id, userId  *)
(* and name; of a progress entry _id, goalId, userId and value.  A request *)
(* body is the set of its <<key, value>> pairs, values being strings of    *)
(* characters.  A handler runs from one await on a collection to the next  *)
(* in one step; requests in other slots may run in between.                *)
(***************************************************************************)
GoalSlots == 1..MaxGoalSlots
GoalUsers == {"u1", "u2"}

\* The time at which these routes verify their tokens.
GoalNow == MaxTime

\* The cookie login sets for user u, not yet expired.
SessionCookie_Of(u) == Jwt(ServerSecret, GoalNow + 1, "string", u)

SessionCookies == { SessionCookie_Of(u) : u \in GoalUsers }

\* No cookie, no JWT, an expired session, a JWT signed with another key, a
\* payload without userId, a payload whose userId is the empty string.
OtherCookies ==
    { NoCookie, Garbage,
      Jwt(ServerSecret, GoalNow, "string", "u1"),
      Jwt(OtherSecret, GoalNow + 1, "string", "u1"),
      Jwt(ServerSecret, GoalNow + 1, "none", ""),
      Jwt(ServerSecret, GoalNow + 1, "string", "") }

GoalCookies == SessionCookies \cup OtherCookies

\* NextResponse.json({ success, message, data }, { status }); `goals` and
\* `entries` are the documents in data, and a 204 has neither body nor data.
GoalResp(status, success, message, gs, es) ==
    [status |-> status, success |-> success, message |-> message,
     goals |-> gs, entries |-> es]

GoalError(status, message) == GoalResp(status, FALSE, message, {}, {})

GoalNoResp == GoalResp(0, FALSE, "", {}, {})

ConnectFailed == GoalError(500, "Internal Server Error: Could not connect to database.")

InvalidGoalIdFormat == GoalError(400, "Invalid Goal ID format.")

NoContent == GoalResp(204, TRUE, "", {}, {})

\* getVerifiedUserId returns a userId or a response.
Verified(userId) == [ok |-> TRUE, userId |-> userId, resp |-> GoalNoResp]
Refused(resp) == [ok |-> FALSE, userId |-> "", resp |-> resp]

\* getVerifiedUserId of app/api/goals/route.ts: no test of the userId's length.
GetVerifiedUserId_Goals(cookie, secret, now) ==
    IF TokenMissing(cookie) THEN Refused(GoalError(401, "Authentication required."))
    ELSE IF SecretMissing(secret)
    THEN Refused(GoalError(500, "Internal Server Error: Server configuration missing."))
    ELSE IF Verify(cookie, secret, now) = "expired" THEN Refused(GoalError(401, "Token expired."))
    ELSE IF Verify(cookie, secret, now) = "invalid" THEN Refused(GoalError(401, "Invalid token."))
    ELSE IF cookie.claim # "string" THEN Refused(GoalError(401, "Invalid token payload."))
    ELSE Verified(cookie.userId)

\* getVerifiedUserId of app/api/goals/[goalId]/route.ts
GetVerifiedUserId_Item(cookie, secret, now) ==
    IF TokenMissing(cookie) THEN Refused(GoalError(401, "Authentication required."))
    ELSE IF SecretMissing(secret)
    THEN Refused(GoalError(500, "Internal Server Error: Server configuration missing."))
    ELSE IF Verify(cookie, secret, now) = "expired" THEN Refused(GoalError(401, "Token expired."))
    ELSE IF Verify(cookie, secret, now) = "invalid" THEN Refused(GoalError(401, "Invalid token."))
    ELSE IF cookie.claim # "string" THEN Refused(GoalError(401, "Invalid token payload."))
    ELSE IF cookie.userId # "" THEN Verified(cookie.userId)
    ELSE Refused(GoalError(401, "Invalid token payload."))

\* getVerifiedUserId of app/api/progress/route.ts
GetVerifiedUserId_Progress(cookie, secret, now) ==
    IF TokenMissing(cookie) THEN Refused(GoalError(401, "Authentication required."))
    ELSE IF SecretMissing(secret)
    THEN Refused(GoalError(500, "Internal Server Error: Server configuration missing."))
    ELSE IF Verify(cookie, secret, now) = "expired" THEN Refused(GoalError(401, "Token expired."))
    ELSE IF Verify(cookie, secret, now) = "invalid" THEN Refused(GoalError(401, "Invalid token."))
    ELSE IF cookie.claim # "string" THEN Refused(GoalError(401, "Invalid token payload."))
    ELSE IF cookie.userId # "" THEN Verified(cookie.userId)
    ELSE Refused(GoalError(401, "Invalid token payload."))

\* mongoose.Types.ObjectId.isValid
ObjectIdIsValid(id) == id \in 1..(MaxGoals + 1)

RequestGoalIds == 0..(MaxGoals + 1)

\* Mongoose casting a userId to ObjectId: the empty string cannot be cast.
CastsToObjectId(userId) == userId # ""

\* Request bodies.
Keys(body) == { kv[1] : kv \in body }
Field(body, key) == (CHOOSE kv \in body : kv[1] = key)[2]

NoBody == {}

\* Bodies the goal schemas accept: a name, with or without blanks around it.
GoalBodies == { {<<"name", <<"a">>>>}, {<<"name", <<" ", "b">>>>} }

\* Bodies with nothing to store, a blank name, a key the schemas do not know.
OddGoalBodies ==
    { NoBody, {<<"name", <<" ">>>>}, {<<"userId", <<"u", "2">>>>},
      {<<"name", <<"a">>>>, <<"userId", <<"u", "2">>>>} }

\* The body logProgressSchema accepts.
ProgressBody == {<<"value", <<"1">>>>}

\* No value, the value 1e999, a key the schema does not know.
OddProgressBodies ==
    { NoBody, {<<"value", <<"1", "e", "9", "9", "9">>>>},
      {<<"value", <<"1">>>>, <<"userId", <<"u", "2">>>>} }

GoalKeys == {"name", "description", "targetMetric", "targetUnit", "deadline"}

\* z.string().trim() on every string field the body has
TrimFields(body) == { <<kv[1], Trim(kv[2])>> : kv \in body }

\* createGoalSchema.safeParse: name is required and not blank; z.object
\* without .strict() drops the keys it does not know.
CreateGoalSchema(body) ==
    LET known == { kv \in body : kv[1] \in GoalKeys } IN
    [success |-> "name" \in Keys(body) /\ Len(Trim(Field(body, "name"))) >= 1,
     data |-> TrimFields(known)]

\* updateGoalSchema.safeParse: every field optional, name not blank when
\* given, .strict() refuses unknown keys.
UpdateGoalSchema_Passthrough(body) ==
    [success |-> "name" \in Keys(body) => Len(Trim(Field(body, "name"))) >= 1,
     data |-> TrimFields(body)]

UpdateGoalSchema_NotStrict(body) ==
    LET known == { kv \in body : kv[1] \in GoalKeys } IN
    [success |-> "name" \in Keys(known) => Len(Trim(Field(known, "name"))) >= 1,
     data |-> TrimFields(known)]

UpdateGoalSchema(body) ==
    [success |-> /\ Keys(body) \subseteq GoalKeys
                 /\ "name" \in Keys(body) => Len(Trim(Field(body, "name"))) >= 1,
     data |-> TrimFields(body)]

\* z.number().finite(): the JSON number 1e999 parses to Infinity.
IsFiniteNumber(value) == \A i \in 1..Len(value) : value[i] \in Digits

\* logProgressSchema.safeParse, for a body whose date is well formed:
\* goalId a well formed ObjectId, value a finite number, .strict().
LogProgressSchema(goalId, body) ==
    [success |-> /\ ObjectIdIsValid(goalId)
                 /\ Keys(body) = {"value"}
                 /\ IsFiniteNumber(Field(body, "value")),
     data |-> body]

\* The documents.
GoalDoc(id, userId, name) == [id |-> id, userId |-> userId, name |-> name]

EntryDoc(id, goalId, userId, value) ==
    [id |-> id, goalId |-> goalId, userId |-> userId, value |-> value]

\* The user id a string of the body denotes (the cast of the userId path)
CastUserId(value) ==
    CASE value = <<"u", "1">> -> "u1"
      [] value = <<"u", "2">> -> "u2"
      [] OTHER -> ""

\* findOneAndUpdate's update: the fields of updateData replace the goal's.
ApplyUpdate(goal, updateData) ==
    [goal EXCEPT
       !.name = IF "name" \in Keys(updateData) THEN Field(updateData, "name") ELSE @,
       !.userId = IF "userId" \in Keys(updateData)
                  THEN CastUserId(Field(updateData, "userId"))
                  ELSE @]

\* The filters of the queries.
\* (mutant) findOne({ _id }) without the owner
GetGoalFilter_AnyOwner(goal, goalId, userId) == goal.id = goalId

\* GET item: GoalModel.findOne({ _id: params.goalId, userId: userId })
GetGoalFilter(goal, goalId, userId) == goal.id = goalId /\ goal.userId = userId

\* PUT: GoalModel.findOneAndUpdate({ _id: params.goalId, userId: userId }, ...)
PutGoalFilter(goal, goalId, userId) == goal.id = goalId /\ goal.userId = userId

\* (mutant) deleteOne({ _id }) without the owner
DeleteGoalFilter_AnyOwner(goal, goalId, userId) == goal.id = goalId

\* DELETE: GoalModel.deleteOne({ _id: params.goalId, userId: userId })
DeleteGoalFilter(goal, goalId, userId) == goal.id = goalId /\ goal.userId = userId

\* GET collection: GoalModel.find({ userId: userId })
ListGoalsFilter(goal, userId) == goal.userId = userId

\* (mutant) the ownership check of POST /api/progress without the owner
OwnedGoalFilter_AnyOwner(goal, goalId, userId) == goal.id = goalId

\* POST progress: GoalModel.findOne({ _id: validatedData.goalId, userId: userId })
OwnedGoalFilter(goal, goalId, userId) == goal.id = goalId /\ goal.userId = userId

\* (mutant) find({}) without the goal id
ProgressOfGoalFilter_All(entry, goalId) == TRUE

\* GET item: ProgressModel.find({ goalId: params.goalId })
ProgressOfGoalFilter(entry, goalId) == entry.goalId = goalId

\* (mutant) a cascade that is limited to the entries of no goal
CascadeFilter_Nothing(entry, goalId) == FALSE

\* DELETE: ProgressModel.deleteMany({ goalId: params.goalId })
CascadeFilter(entry, goalId) == entry.goalId = goalId

GoalNotFound == GoalError(404, "Goal not found or you do not have permission.")

\* What a handler has done when it stops at an await on a collection or
\* returns: where it stands, its response if it returned, whether a storage
\* call failed, the goals collection, and its locals `goal` and `userId`.
GoalOut(pc, resp, fault, coll, found, userId) ==
    [pc |-> pc, resp |-> resp, fault |-> fault, goals |-> coll, found |-> found,
     userId |-> userId]

GoalEnd(resp, coll, userId) == GoalOut("done", resp, FALSE, coll, {}, userId)
GoalFail(resp, coll, userId) == GoalOut("done", resp, TRUE, coll, {}, userId)

GoalRequest(op, cookie, goalId, body) ==
    [op |-> op, cookie |-> cookie, goalId |-> goalId, body |-> body]

\* The requests tried.  A request with a session cookie ranges over the goal
\* ids and the bodies its schema accepts; the other cookies and the other
\* bodies come with one goal id only.
ItemRequests(op) ==
    { GoalRequest(op, c, id, NoBody) : c \in SessionCookies, id \in RequestGoalIds }
      \cup { GoalRequest(op, c, 1, NoBody) : c \in OtherCookies }

PutRequests ==
    { GoalRequest("PUT", c, id, b) : c \in SessionCookies, id \in RequestGoalIds, b \in GoalBodies }
      \cup { GoalRequest("PUT", c, 1, b) : c \in SessionCookies, b \in OddGoalBodies }
      \cup { GoalRequest("PUT", c, 1, b) : c \in OtherCookies, b \in GoalBodies }

CreateRequests ==
    { GoalRequest("POST", c, 0, b) : c \in SessionCookies, b \in GoalBodies \cup OddGoalBodies }
      \cup { GoalRequest("POST", c, 0, b) : c \in OtherCookies, b \in GoalBodies }

ListRequests == { GoalRequest("LIST", c, 0, NoBody) : c \in GoalCookies }

LogRequests ==
    { GoalRequest("LOG", c, id, ProgressBody) : c \in SessionCookies, id \in RequestGoalIds }
      \cup { GoalRequest("LOG", c, 1, b) : c \in SessionCookies, b \in OddProgressBodies }
      \cup { GoalRequest("LOG", c, 1, ProgressBody) : c \in OtherCookies }

\* GET /api/goals/:goalId up to the result of GoalModel.findOne
ItemGET(coll, secret, req, fault) ==
    LET v == GetVerifiedUserId_Item(req.cookie, secret, GoalNow)
        goal == { g \in coll : GetGoalFilter(g, req.goalId, v.userId) }
    IN  IF ~ObjectIdIsValid(req.goalId) THEN GoalEnd(InvalidGoalIdFormat, coll, "")
        ELSE IF fault = "connect" THEN GoalFail(ConnectFailed, coll, "")
        ELSE IF ~v.ok THEN GoalEnd(v.resp, coll, "")
        ELSE IF fault = "query"
        THEN GoalFail(GoalError(500, "Internal Server Error: Could not retrieve goal details."),
                      coll, v.userId)
        ELSE IF goal = {} THEN GoalEnd(GoalNotFound, coll, v.userId)
        ELSE GoalOut("progress", GoalNoResp, FALSE, coll, goal, v.userId)

\* PUT /api/goals/:goalId
ItemPUT(coll, secret, req, fault) ==
    LET v == GetVerifiedUserId_Item(req.cookie, secret, GoalNow)
        validationResult == UpdateGoalSchema(req.body)
        updateData == validationResult.data
        goal == { g \in coll : PutGoalFilter(g, req.goalId, v.userId) }
        updatedGoal == { ApplyUpdate(g, updateData) : g \in goal }
    IN  IF ~ObjectIdIsValid(req.goalId) THEN GoalEnd(InvalidGoalIdFormat, coll, "")
        ELSE IF fault = "connect" THEN GoalFail(ConnectFailed, coll, "")
        ELSE IF ~v.ok THEN GoalEnd(v.resp, coll, "")
        ELSE IF ~validationResult.success
        THEN GoalEnd(GoalError(400, "Invalid goal update data provided."), coll, v.userId)
        ELSE IF Keys(updateData) = {}
        THEN GoalEnd(GoalError(400, "No update data provided."), coll, v.userId)
        ELSE IF fault = "query"
        THEN GoalFail(GoalError(500, "Internal Server Error: Could not update goal."),
                      coll, v.userId)
        ELSE IF goal = {} THEN GoalEnd(GoalNotFound, coll, v.userId)
        ELSE GoalEnd(GoalResp(200, TRUE, "", updatedGoal, {}),
                     (coll \ goal) \cup updatedGoal, v.userId)

\* DELETE /api/goals/:goalId up to the result of GoalModel.deleteOne
ItemDELETE(coll, secret, req, fault) ==
    LET v == GetVerifiedUserId_Item(req.cookie, secret, GoalNow)
        goal == { g \in coll : DeleteGoalFilter(g, req.goalId, v.userId) }
    IN  IF ~ObjectIdIsValid(req.goalId) THEN GoalEnd(InvalidGoalIdFormat, coll, "")
        ELSE IF fault = "connect" THEN GoalFail(ConnectFailed, coll, "")
        ELSE IF ~v.ok THEN GoalEnd(v.resp, coll, "")
        ELSE IF fault = "query"
        THEN GoalFail(GoalError(500, "Internal Server Error: Could not delete goal."),
                      coll, v.userId)
        ELSE IF goal = {} THEN GoalEnd(GoalNotFound, coll, v.userId)
        ELSE GoalOut("cascade", GoalNoResp, FALSE, coll \ goal, {}, v.userId)

\* POST /api/goals; newId is the _id the new document is given
GoalsPOST(coll, newId, secret, req, fault) ==
    LET v == GetVerifiedUserId_Goals(req.cookie, secret, GoalNow)
        validationResult == CreateGoalSchema(req.body)
        newGoal == GoalDoc(newId, v.userId, Field(validationResult.data, "name"))
    IN  IF fault = "connect" THEN GoalFail(ConnectFailed, coll, "")
        ELSE IF ~v.ok THEN GoalEnd(v.resp, coll, "")
        ELSE IF ~validationResult.success
        THEN GoalEnd(GoalError(400, "Invalid goal data provided."), coll, v.userId)
        ELSE IF ~CastsToObjectId(v.userId)
        THEN GoalEnd(GoalError(400, "Database validation failed."), coll, v.userId)
        ELSE IF fault = "query"
        THEN GoalFail(GoalError(500, "Internal Server Error: Could not create goal."),
                      coll, v.userId)
        ELSE GoalEnd(GoalResp(201, TRUE, "", {newGoal}, {}), coll \cup {newGoal}, v.userId)

\* GET /api/goals
GoalsGET(coll, secret, req, fault) ==
    LET v == GetVerifiedUserId_Goals(req.cookie, secret, GoalNow)
        found == { g \in coll : ListGoalsFilter(g, v.userId) }
    IN  IF fault = "connect" THEN GoalFail(ConnectFailed, coll, "")
        ELSE IF ~v.ok THEN GoalEnd(v.resp, coll, "")
        ELSE IF ~CastsToObjectId(v.userId)
        THEN GoalEnd(GoalError(500, "Internal Server Error: Could not retrieve goals."),
                     coll, v.userId)
        ELSE IF fault = "query"
        THEN GoalFail(GoalError(500, "Internal Server Error: Could not retrieve goals."),
                      coll, v.userId)
        ELSE GoalEnd(GoalResp(200, TRUE, "", found, {}), coll, v.userId)

\* POST /api/progress up to the result of GoalModel.findOne
ProgressPOST(coll, secret, req, fault) ==
    LET v == GetVerifiedUserId_Progress(req.cookie, secret, GoalNow)
        validationResult == LogProgressSchema(req.goalId, req.body)
        goal == { g \in coll : OwnedGoalFilter(g, req.goalId, v.userId) }
    IN  IF fault = "connect" THEN GoalFail(ConnectFailed, coll, "")
        ELSE IF ~v.ok THEN GoalEnd(v.resp, coll, "")
        ELSE IF ~validationResult.success
        THEN GoalEnd(GoalError(400, "Invalid progress data provided."), coll, v.userId)
        ELSE IF fault = "query"
        THEN GoalFail(GoalError(500, "Internal Server Error: Could not save progress entry."),
                      coll, v.userId)
        ELSE IF goal = {} THEN GoalEnd(GoalNotFound, coll, v.userId)
        ELSE GoalOut("create", GoalNoResp, FALSE, coll, goal, v.userId)

\* A slot: where its request stands, the request, the handler's locals
\* `userId` and `goal`, whether a storage call of the request failed, the
\* deletedCount of the cascade, and the response once there is one.
GoalIdle ==
    [pc |-> "idle", req |-> GoalRequest("none", NoCookie, 0, NoBody), userId |-> "",
     found |-> {}, fault |-> FALSE, deleted |-> 0, resp |-> GoalNoResp]

GoalInit ==
    /\ goalSecret \in {ServerSecret, NoSecret}
    /\ goals = {}
    /\ progress = {}
    /\ created = <<>>
    /\ logged = 0
    /\ goalSlot = [p \in GoalSlots |-> GoalIdle]

GoalUnused ==
    /\ goalSecret = NoSecret
    /\ goals = {}
    /\ progress = {}
    /\ created = <<>>
    /\ logged = 0
    /\ goalSlot = [p \in GoalSlots |-> GoalIdle]

\* connectDB() throws, or the first query of the handler throws
StartFaults == {"none", "connect", "query"}

\* A response stays in its slot until it has been sent; nothing else happens
\* in between.
GoalNoneDone == \A p \in GoalSlots : goalSlot[p].pc # "done"

\* The requests that have passed the ownership check of POST /api/progress
\* and have not yet inserted their entry.
EntriesInFlight == Cardinality({ q \in GoalSlots : goalSlot[q].pc = "create" })

\* A request enters slot p, the first free one, and its handler runs up to
\* `out`.  A storage call fails for requests with a session cookie only.
GoalFree(p) ==
    /\ GoalNoneDone
    /\ goalSlot[p].pc = "idle"
    /\ \A q \in GoalSlots : q < p => goalSlot[q].pc # "idle"

GoalBegin(p, req, out, fault) ==
    /\ fault # "none" => req.cookie \in SessionCookies
    /\ out.fault = (fault # "none")
    /\ goals' = out.goals
    /\ goalSlot' = [goalSlot EXCEPT ![p] =
         [pc |-> out.pc, req |-> req, userId |-> out.userId, found |-> out.found,
          fault |-> out.fault, deleted |-> 0, resp |-> out.resp]]

CallItemGET(p) ==
    /\ GoalFree(p)
    /\ \E req \in ItemRequests("GET"), fault \in StartFaults :
         GoalBegin(p, req, ItemGET(goals, goalSecret, req, fault), fault)
    /\ UNCHANGED <<goalSecret, progress, created, logged, mwVars, dbVars, authVars, clientVars>>

CallItemPUT(p) ==
    /\ GoalFree(p)
    /\ \E req \in PutRequests, fault \in StartFaults :
         GoalBegin(p, req, ItemPUT(goals, goalSecret, req, fault), fault)
    /\ UNCHANGED <<goalSecret, progress, created, logged, mwVars, dbVars, authVars, clientVars>>

CallItemDELETE(p) ==
    /\ GoalFree(p)
    /\ \E req \in ItemRequests("DELETE"), fault \in StartFaults :
         GoalBegin(p, req, ItemDELETE(goals, goalSecret, req, fault), fault)
    /\ UNCHANGED <<goalSecret, progress, created, logged, mwVars, dbVars, authVars, clientVars>>

CallGoalsPOST(p) ==
    /\ GoalFree(p)
    /\ \E req \in CreateRequests, fault \in StartFaults :
         LET out == GoalsPOST(goals, Len(created) + 1, goalSecret, req, fault) IN
           /\ out.resp.status = 201 => Len(created) < MaxGoals
           /\ GoalBegin(p, req, out, fault)
           /\ created' = IF out.resp.status = 201 THEN Append(created, out.userId)
                         ELSE created
    /\ UNCHANGED <<goalSecret, progress, logged, mwVars, dbVars, authVars, clientVars>>

CallGoalsGET(p) ==
    /\ GoalFree(p)
    /\ \E req \in ListRequests, fault \in StartFaults :
         GoalBegin(p, req, GoalsGET(goals, goalSecret, req, fault), fault)
    /\ UNCHANGED <<goalSecret, progress, created, logged, mwVars, dbVars, authVars, clientVars>>

CallProgressPOST(p) ==
    /\ GoalFree(p)
    /\ \E req \in LogRequests, fault \in StartFaults :
         LET out == ProgressPOST(goals, goalSecret, req, fault) IN
           /\ out.pc = "create" => logged + EntriesInFlight < MaxEntries
           /\ GoalBegin(p, req, out, fault)
    /\ UNCHANGED <<goalSecret, progress, created, logged, mwVars, dbVars, authVars, clientVars>>

\* GET item, from the result of ProgressModel.find to the response
ItemGETProgress(p) ==
    /\ GoalNoneDone
    /\ goalSlot[p].pc = "progress"
    /\ \E fault \in BOOLEAN :
         LET progressEntries ==
               { e \in progress : ProgressOfGoalFilter(e, goalSlot[p].req.goalId) }
         IN  goalSlot' = [goalSlot EXCEPT ![p].pc = "done", ![p].fault = fault,
               ![p].resp =
                 IF fault
                 THEN GoalError(500, "Internal Server Error: Could not retrieve goal details.")
                 ELSE GoalResp(200, TRUE, "", goalSlot[p].found, progressEntries)]
    /\ UNCHANGED <<goalSecret, goals, progress, created, logged, mwVars, dbVars, authVars, clientVars>>

\* DELETE, from the result of ProgressModel.deleteMany to the response: an
\* error of deleteMany is logged and the response is 204 all the same.
CascadeResponse_FailOnError(fault) ==
    IF fault THEN GoalError(500, "Internal Server Error: Could not delete goal.")
    ELSE NoContent

\* The response after the cascade: deleteMany's error is caught and logged
CascadeResponse(fault) == NoContent

ItemDELETECascade(p) ==
    /\ GoalNoneDone
    /\ goalSlot[p].pc = "cascade"
    /\ \E fault \in BOOLEAN :
         LET gone == { e \in progress : CascadeFilter(e, goalSlot[p].req.goalId) } IN
           /\ progress' = IF fault THEN progress ELSE progress \ gone
           /\ goalSlot' = [goalSlot EXCEPT ![p].pc = "done", ![p].fault = fault,
                ![p].deleted = IF fault THEN 0 ELSE Cardinality(gone),
                ![p].resp = CascadeResponse(fault)]
    /\ UNCHANGED <<goalSecret, goals, created, logged, mwVars, dbVars, authVars, clientVars>>

\* POST progress, from the result of ProgressModel.create to the response
ProgressPOSTCreate(p) ==
    /\ GoalNoneDone
    /\ goalSlot[p].pc = "create"
    /\ \E fault \in BOOLEAN :
         LET req == goalSlot[p].req
             newProgressDoc ==
               EntryDoc(logged + 1, req.goalId, goalSlot[p].userId, Field(req.body, "value"))
         IN  IF fault
             THEN /\ UNCHANGED <<progress, logged, clientVars>>
                  /\ goalSlot' = [goalSlot EXCEPT ![p].pc = "done", ![p].fault = TRUE,
                       ![p].resp =
                         GoalError(500, "Internal Server Error: Could not save progress entry.")]
             ELSE /\ progress' = progress \cup {newProgressDoc}
                  /\ logged' = logged + 1
                  /\ goalSlot' = [goalSlot EXCEPT ![p].pc = "done",
                       ![p].resp = GoalResp(201, TRUE, "", {}, {newProgressDoc})]
    /\ UNCHANGED <<goalSecret, goals, created, mwVars, dbVars, authVars, clientVars>>

\* The response is sent and the slot is free again.
GoalSend(p) ==
    /\ goalSlot[p].pc = "done"
    /\ goalSlot' = [goalSlot EXCEPT ![p] = GoalIdle]
    /\ UNCHANGED <<goalSecret, goals, progress, created, logged, mwVars, dbVars, authVars, clientVars>>

NextGoals ==
    \/ \E p \in GoalSlots : CallItemGET(p)
    \/ \E p \in GoalSlots : CallItemPUT(p)
    \/ \E p \in GoalSlots : CallItemDELETE(p)
    \/ \E p \in GoalSlots : CallGoalsPOST(p)
    \/ \E p \in GoalSlots : CallGoalsGET(p)
    \/ \E p \in GoalSlots : CallProgressPOST(p)
    \/ \E p \in GoalSlots : ItemGETProgress(p)
    \/ \E p \in GoalSlots : ItemDELETECascade(p)
    \/ \E p \in GoalSlots : ProgressPOSTCreate(p)
    \/ \E p \in GoalSlots : GoalSend(p)

(***************************************************************************)
(* lib/utils: calculateCompletionPercentage.                               *)
(*                                                                         *)
(* A JavaScript value is a record: null, undefined, a string, or a number, *)
(* and a number is NaN, Infinity, -Infinity or the fraction num / den with *)
(* den > 0.  The arithmetic is that of IEEE numbers without rounding.      *)
(***************************************************************************)
JsNull == [type |-> "null", kind |-> "none", num |-> 0, den |-> 1]
JsUndefined == [type |-> "undefined", kind |-> "none", num |-> 0, den |-> 1]
JsString == [type |-> "string", kind |-> "none", num |-> 0, den |-> 1]
JsNaN == [type |-> "number", kind |-> "NaN", num |-> 0, den |-> 1]
JsInfinity == [type |-> "number", kind |-> "Infinity", num |-> 0, den |-> 1]
JsMinusInfinity == [type |-> "number", kind |-> "-Infinity", num |-> 0, den |-> 1]
JsFraction(num, den) == [type |-> "number", kind |-> "finite", num |-> num, den |-> den]
JsNumber(n) == JsFraction(n, 1)

\* The numbers tried as arguments.
CalcNumbers == {-10, -1, 0, 1, 3, 50, 100, 150}

CalcValues ==
    { JsNumber(n) : n \in CalcNumbers }
      \cup {JsNull, JsUndefined, JsString, JsNaN, JsInfinity, JsMinusInfinity}

\* typeof x === 'number', isNaN(x)
IsNumberType(x) == x.type = "number"
IsNaN(x) == x.kind = "NaN"

\* x <= 0, for a number that is not NaN
AtMostZero(x) == x.kind = "-Infinity" \/ (x.kind = "finite" /\ x.num <= 0)

\* a <= b, for two finite numbers
FractionLeq(a, b) == a.num * b.den <= b.num * a.den

\* x / y for numbers that are not NaN, y > 0
JsDivide(x, y) ==
    IF x.kind = "finite" /\ y.kind = "finite" THEN JsFraction(x.num * y.den, x.den * y.num)
    ELSE IF x.kind = "finite" THEN JsNumber(0)
    ELSE IF y.kind = "finite" THEN x
    ELSE JsNaN

\* x * 100
JsTimes100(x) == IF x.kind = "finite" THEN JsFraction(x.num * 100, x.den) ELSE x

\* Math.min(a, b) and Math.max(a, b): NaN if either is NaN
MathMin(a, b) ==
    IF IsNaN(a) \/ IsNaN(b) THEN JsNaN
    ELSE IF a.kind = "-Infinity" \/ b.kind = "Infinity" THEN a
    ELSE IF b.kind = "-Infinity" \/ a.kind = "Infinity" THEN b
    ELSE IF FractionLeq(a, b) THEN a ELSE b

MathMax(a, b) ==
    IF IsNaN(a) \/ IsNaN(b) THEN JsNaN
    ELSE IF a.kind = "Infinity" \/ b.kind = "-Infinity" THEN a
    ELSE IF b.kind = "Infinity" \/ a.kind = "-Infinity" THEN b
    ELSE IF FractionLeq(a, b) THEN b ELSE a

\* (mutant) no upper clamp
ClampPercentage_NoUpper(percentage) == MathMax(JsNumber(0), percentage)

\* Math.max(0, Math.min(percentage, 100))
ClampPercentage(percentage) == MathMax(JsNumber(0), MathMin(percentage, JsNumber(100)))

calculateCompletionPercentage(currentValue, targetValue) ==
    IF \/ targetValue.type \in {"null", "undefined"}
       \/ ~IsNumberType(targetValue)
       \/ IsNaN(targetValue)
       \/ AtMostZero(targetValue)
    THEN JsNull
    ELSE LET effectiveCurrentValue ==
               IF /\ currentValue.type \notin {"null", "undefined"}
                  /\ IsNumberType(currentValue)
                  /\ ~IsNaN(currentValue)
               THEN currentValue
               ELSE JsNumber(0)
             percentage == JsTimes100(JsDivide(effectiveCurrentValue, targetValue))
             clampedPercentage == ClampPercentage(percentage)
         IN  IF IsNaN(clampedPercentage) THEN JsNumber(0) ELSE clampedPercentage

CalcInit ==
    /\ calcArgs \in CalcValues \X CalcValues
    /\ calcResult = JsUndefined

CalcUnused ==
    /\ calcArgs = <<JsUndefined, JsUndefined>>
    /\ calcResult = JsUndefined

\* One call: calculateCompletionPercentage(currentValue, targetValue)
CalcCall ==
    /\ calcResult = JsUndefined
    /\ calcResult' = calculateCompletionPercentage(calcArgs[1], calcArgs[2])
    /\ UNCHANGED <<calcArgs, serverVars, histVars, ctxVars, pageVars>>

NextCalc == CalcCall

(***************************************************************************)
(* components/ProgressHistory.tsx: the order the entries are rendered in.  *)
(***************************************************************************)
\* The values the date field of an entry can hold at run time.
HistUndefined == [type |-> "undefined", text |-> "", time |-> 0]
HistNull == [type |-> "null", text |-> "", time |-> 0]
HistString(s) == [type |-> "string", text |-> s, time |-> 0]
HistDateObject(t) == [type |-> "date", text |-> "", time |-> t]

\* getTime() of an Invalid Date (NaN); valid times are the days 1, 2, ...
InvalidTime == 0

\* date-fns parseISO, for the strings tried: the time of the parsed date
ParseISO(s) ==
    CASE s = "2024-01-01" -> 1
      [] s = "2024-01-02" -> 2
      [] s = "2024-01-02T00:00" -> 2
      [] OTHER -> InvalidTime

\* date-fns isValid
IsValid(time) == time # InvalidTime

HistDates ==
    {HistUndefined, HistNull, HistString(""), HistString("not a date"),
     HistString("2024-01-01"), HistString("2024-01-02"),
     HistString("2024-01-02T00:00"), HistDateObject(3),
     HistDateObject(InvalidTime)}

HistEntries(n) ==
    {[i \in 1..n |-> [id |-> i, date |-> f[i]]] : f \in [1..n -> HistDates]}

\* The progressEntries prop: null or undefined (present FALSE), or an array
HistAbsent == [present |-> FALSE, entries |-> <<>>]

HistArray(entries) == [present |-> TRUE, entries |-> entries]

HistProps ==
    {HistAbsent} \cup {HistArray(es) : es \in UNION {HistEntries(n) : n \in 0..MaxHistLen}}

\* parseEntryDateForSort: the time of the entry's date, Null when it has none
ParseEntryDateForSort(dateInput) ==
    IF dateInput.type \in {"undefined", "null"} \/ dateInput = HistString("")
    THEN Null
    ELSE LET dateObj == IF dateInput.type = "date" THEN dateInput.time
                        ELSE ParseISO(dateInput.text)
         IN IF IsValid(dateObj) THEN dateObj ELSE Null

CompareEntries_Ascending(a, b) ==
    LET dateA == ParseEntryDateForSort(a.date)
        dateB == ParseEntryDateForSort(b.date)
    IN IF dateA = Null /\ dateB = Null THEN 0
       ELSE IF dateA = Null THEN 1
       ELSE IF dateB = Null THEN -1
       ELSE dateA - dateB

\* The comparator handed to sort()
CompareEntries(a, b) ==
    LET dateA == ParseEntryDateForSort(a.date)
        dateB == ParseEntryDateForSort(b.date)
    IN IF dateA = Null /\ dateB = Null THEN 0
       ELSE IF dateA = Null THEN 1
       ELSE IF dateB = Null THEN -1
       ELSE dateB - dateA

\* Array.prototype.sort with the comparator: a stable sort, computed by
\* inserting each element after the elements that do not compare above it
RECURSIVE InsertSorted(_, _)
InsertSorted(sorted, x) ==
    IF sorted = <<>> \/ CompareEntries(sorted[Len(sorted)], x) <= 0
    THEN Append(sorted, x)
    ELSE Append(InsertSorted(SubSeq(sorted, 1, Len(sorted) - 1), x), sorted[Len(sorted)])

RECURSIVE ArraySort(_)
ArraySort(array) ==
    IF array = <<>> THEN <<>>
    ELSE InsertSorted(ArraySort(SubSeq(array, 1, Len(array) - 1)), array[Len(array)])

\* The caller's array after sortedEntries was computed: sort() ran on the
\* copy [...progressEntries], not on the prop
PropsAfterSort(props) == props

SortedEntries(props) ==
    IF ~props.present \/ Len(props.entries) = 0 THEN <<>>
    ELSE ArraySort(props.entries)

EmptyStateMessage == "No progress has been logged yet."

HistView(rendered, message, items) ==
    [rendered |-> rendered, message |-> message, items |-> items]

HistNotRendered == HistView(FALSE, "", <<>>)

\* What the component returns: the message, or one list item per entry
Render(props) ==
    LET sortedEntries == SortedEntries(props)
    IN IF Len(sortedEntries) = 0 THEN HistView(TRUE, EmptyStateMessage, <<>>)
       ELSE HistView(TRUE, "", sortedEntries)

HistInit ==
    /\ histProps \in HistProps
    /\ histView = HistNotRendered

HistUnused ==
    /\ histProps = HistAbsent
    /\ histView = HistNotRendered

\* One render of <ProgressHistory progressEntries={histProps} />
HistRender ==
    /\ ~histView.rendered
    /\ histView' = Render(histProps)
    /\ histProps' = PropsAfterSort(histProps)
    /\ UNCHANGED <<serverVars, calcVars, ctxVars, pageVars>>

NextHist == HistRender

(***************************************************************************)
(* context/AuthContext: the AuthProvider's state, and its checkAuthState,  *)
(* login, signup and logout.  Each call runs up to its await in the step   *)
(* that invokes it and resumes in the step that delivers the API's answer. *)
(***************************************************************************)
CtxSlots == 1..MaxCtxSlots

CtxUsers == {"u1"}

\* user === null, error === null
NoUser == "null"

NoError == ""

\* What axios gets back: a 2xx body with success true ("ok") or success
\* false ("refused"), a response with an error status ("http"), or no
\* response at all ("network")
ApiAnswer(kind, status, message, user) ==
    [kind |-> kind, status |-> status, message |-> message, user |-> user]

ApiOk(user) == ApiAnswer("ok", 200, "", user)

ApiRefused(message) == ApiAnswer("refused", 200, message, NoUser)

ApiHttp(status, message) == ApiAnswer("http", status, message, NoUser)

ApiNetwork == ApiAnswer("network", 0, "", NoUser)

ProfileAnswers ==
    {ApiOk(u) : u \in CtxUsers} \cup
    {ApiOk(NoUser), ApiRefused(""), ApiHttp(401, "Unauthorized"), ApiHttp(500, ""), ApiNetwork}

LoginAnswers ==
    {ApiOk(u) : u \in CtxUsers} \cup
    {ApiRefused(""), ApiRefused("Login refused."), ApiHttp(401, "Invalid credentials."),
     ApiHttp(500, ""), ApiNetwork}

SignupAnswers ==
    {ApiOk(NoUser), ApiRefused(""), ApiHttp(409, "Email already in use."), ApiNetwork}

LogoutAnswers == {ApiOk(NoUser), ApiHttp(500, ""), ApiNetwork}

\* err.message of the error axios rejects with
AxiosMessage(answer) ==
    IF answer.kind = "network" THEN "Network Error"
    ELSE "Request failed with an error status code"

\* The message the catch block of login or signup shows: the response's
\* message, else the message of the Error that was thrown
ErrorMessage(answer, fallback) ==
    IF answer.kind = "http" /\ answer.message # "" THEN answer.message
    ELSE IF answer.kind = "refused"
         THEN (IF answer.message # "" THEN answer.message ELSE fallback)
         ELSE AxiosMessage(answer)

CtxState(user, isAuthenticated, isLoading, error) ==
    [user |-> user, isAuthenticated |-> isAuthenticated,
     isLoading |-> isLoading, error |-> error]

\* The values of useState() at the first render
CtxInitial == CtxState(NoUser, FALSE, TRUE, NoError)

\* No answer received yet
NoAnswer == ApiAnswer("none", 0, "", NoUser)

\* A call of one of the context's functions: where it stands, the user and
\* isAuthenticated its closure was created with, and the answer its last
\* request got
CtxCall(op, pc, closure) ==
    [op |-> op, pc |-> pc, closure |-> closure, answer |-> NoAnswer]

Closure(state) == [user |-> state.user, isAuthenticated |-> state.isAuthenticated]

CtxIdle == CtxCall("none", "idle", Closure(CtxInitial))

CtxFree(p) ==
    /\ ctxCalls[p].pc \in {"idle", "returned", "threw"}
    /\ \A q \in CtxSlots : q < p => ctxCalls[q].pc \notin {"idle", "returned", "threw"}

\* setIsLoading(true); setError(null);
StartLoading(state) == [state EXCEPT !.isLoading = TRUE, !.error = NoError]

CheckAuthSettle_SetsError(state, answer) ==
    IF answer.kind = "ok" /\ answer.user # NoUser
    THEN [state EXCEPT !.user = answer.user, !.isAuthenticated = TRUE, !.isLoading = FALSE]
    ELSE [state EXCEPT !.user = NoUser, !.isAuthenticated = FALSE, !.isLoading = FALSE,
                       !.error = "Failed to fetch profile"]

\* checkAuthState once the profile request has settled
CheckAuthSettle(state, answer) ==
    IF answer.kind = "ok" /\ answer.user # NoUser
    THEN [state EXCEPT !.user = answer.user, !.isAuthenticated = TRUE, !.isLoading = FALSE]
    ELSE [state EXCEPT !.user = NoUser, !.isAuthenticated = FALSE, !.isLoading = FALSE]

LoginCatch_KeepsFlag(state, answer) ==
    [state EXCEPT !.error = ErrorMessage(answer, "Login failed from API"),
                  !.user = NoUser, !.isLoading = FALSE]

\* login's catch block
LoginCatch(state, answer) ==
    [state EXCEPT !.error = ErrorMessage(answer, "Login failed from API"),
                  !.user = NoUser, !.isAuthenticated = FALSE, !.isLoading = FALSE]

\* login after `await checkAuthState()`: user and isAuthenticated are the
\* constants of the render the callback was created in
LoginAfterProfile(state, nav, closure) ==
    IF closure.isAuthenticated /\ closure.user # NoUser
    THEN [state |-> state, nav |-> Append(nav, "/dashboard")]
    ELSE [state |-> [state EXCEPT !.error = "Login successful, but failed to load user data.",
                                  !.user = NoUser, !.isAuthenticated = FALSE],
          nav |-> nav]

SignupSettle_KeepsLoading(state, nav, answer) ==
    IF answer.kind = "ok"
    THEN [state |-> [state EXCEPT !.isLoading = FALSE], nav |-> Append(nav, "/login")]
    ELSE [state |-> [state EXCEPT !.error = ErrorMessage(answer, "Signup failed from API")],
          nav |-> nav]

\* signup once its request has settled
SignupSettle(state, nav, answer) ==
    IF answer.kind = "ok"
    THEN [state |-> [state EXCEPT !.isLoading = FALSE], nav |-> Append(nav, "/login")]
    ELSE [state |-> [state EXCEPT !.error = ErrorMessage(answer, "Signup failed from API"),
                                  !.isLoading = FALSE],
          nav |-> nav]

LogoutSettle_OnlyOnSuccess(state, nav, answer) ==
    IF answer.kind = "ok"
    THEN [state |-> [state EXCEPT !.user = NoUser, !.isAuthenticated = FALSE, !.isLoading = FALSE],
          nav |-> Append(nav, "/login"), pc |-> "returned"]
    ELSE [state |-> state, nav |-> nav, pc |-> "threw"]

\* logout once its request has settled: the catch block only logs, the
\* finally block clears the state and redirects
LogoutSettle(state, nav, answer) ==
    [state |-> [state EXCEPT !.user = NoUser, !.isAuthenticated = FALSE, !.isLoading = FALSE],
     nav |-> Append(nav, "/login"), pc |-> "returned"]

CtxInit ==
    /\ ctx = CtxInitial
    /\ ctxCalls = [p \in CtxSlots |-> CtxIdle]
    /\ ctxNav = <<>>
    /\ ctxInvoked = 0

CtxUnused == CtxInit

\* The effect on mount: checkAuthState()
CtxMount ==
    /\ ctxInvoked = 0
    /\ ctx' = StartLoading(ctx)
    /\ ctxCalls' = [ctxCalls EXCEPT ![1] = CtxCall("checkAuthState", "awaitProfile", Closure(ctx))]
    /\ ctxInvoked' = 1
    /\ UNCHANGED <<ctxNav, serverVars, calcVars, histVars, pageVars>>

CtxInvoke(p, op, pc) ==
    /\ ctxInvoked \in 1..(MaxCtxInvocations - 1)
    /\ CtxFree(p)
    /\ ctx' = StartLoading(ctx)
    /\ ctxCalls' = [ctxCalls EXCEPT ![p] = CtxCall(op, pc, Closure(ctx))]
    /\ ctxInvoked' = ctxInvoked + 1
    /\ UNCHANGED <<ctxNav, serverVars, calcVars, histVars, pageVars>>

\* login(credentials) up to `await axios.post('/api/auth', ...)`
CtxLogin == \E p \in CtxSlots : CtxInvoke(p, "login", "awaitLogin")

\* signup(details) up to `await axios.post('/api/auth', ...)`
CtxSignup == \E p \in CtxSlots : CtxInvoke(p, "signup", "awaitSignup")

\* logout() up to `await axios.post('/api/auth/logout')`
CtxLogout == \E p \in CtxSlots : CtxInvoke(p, "logout", "awaitLogout")

CtxEnd(p, pc, answer) ==
    ctxCalls' = [ctxCalls EXCEPT ![p].pc = pc, ![p].answer = answer]

\* The profile request of the check on mount settles
CtxProfileAnswer ==
    \E p \in CtxSlots, answer \in ProfileAnswers :
        /\ ctxCalls[p].pc = "awaitProfile"
        /\ ctx' = CheckAuthSettle(ctx, answer)
        /\ CtxEnd(p, "returned", answer)
        /\ UNCHANGED <<ctxNav, ctxInvoked, serverVars, calcVars, histVars, pageVars>>

\* The login request settles: on success login goes on into
\* checkAuthState() up to its await, otherwise into its catch block
CtxLoginAnswer ==
    \E p \in CtxSlots, answer \in LoginAnswers :
        /\ ctxCalls[p].pc = "awaitLogin"
        /\ IF answer.kind = "ok"
           THEN /\ ctx' = StartLoading(ctx)
                /\ CtxEnd(p, "awaitLoginProfile", answer)
           ELSE /\ ctx' = LoginCatch(ctx, answer)
                /\ CtxEnd(p, "returned", answer)
        /\ UNCHANGED <<ctxNav, ctxInvoked, serverVars, calcVars, histVars, pageVars>>

\* The profile request login waits for settles: checkAuthState finishes
\* and login runs to its end
CtxLoginProfileAnswer ==
    \E p \in CtxSlots, answer \in ProfileAnswers :
        /\ ctxCalls[p].pc = "awaitLoginProfile"
        /\ LET out == LoginAfterProfile(CheckAuthSettle(ctx, answer), ctxNav, ctxCalls[p].closure)
           IN /\ ctx' = out.state
              /\ ctxNav' = out.nav
        /\ CtxEnd(p, "returned", answer)
        /\ UNCHANGED <<ctxInvoked, serverVars, calcVars, histVars, pageVars>>

CtxSignupAnswer ==
    \E p \in CtxSlots, answer \in SignupAnswers :
        /\ ctxCalls[p].pc = "awaitSignup"
        /\ LET out == SignupSettle(ctx, ctxNav, answer)
           IN /\ ctx' = out.state
              /\ ctxNav' = out.nav
        /\ CtxEnd(p, "returned", answer)
        /\ UNCHANGED <<ctxInvoked, serverVars, calcVars, histVars, pageVars>>

CtxLogoutAnswer ==
    \E p \in CtxSlots, answer \in LogoutAnswers :
        /\ ctxCalls[p].pc = "awaitLogout"
        /\ LET out == LogoutSettle(ctx, ctxNav, answer)
           IN /\ ctx' = out.state
              /\ ctxNav' = out.nav
              /\ CtxEnd(p, out.pc, answer)
        /\ UNCHANGED <<ctxInvoked, serverVars, calcVars, histVars, pageVars>>

NextCtx ==
    \/ CtxMount
    \/ CtxLogin
    \/ CtxSignup
    \/ CtxLogout
    \/ CtxProfileAnswer
    \/ CtxLoginAnswer
    \/ CtxLoginProfileAnswer
    \/ CtxSignupAnswer
    \/ CtxLogoutAnswer

(***************************************************************************)
(* The goal detail page (GoalDetailPage) and its ProgressLogForm.          *)
(*                                                                         *)
(* A date string is the sequence of its parts: the date input's            *)
(* 'YYYY-MM-DD' is <<"YYYY-MM-DD">>, an ISO 8601 date-time with a zone is   *)
(* <<"YYYY-MM-DD", "T", "hh:mm:ss", "Z">>.  A field of the form holds the   *)
(* characters the user typed.                                              *)
(***************************************************************************)
MaxPageEntries == 2
MaxSubmissions == 2

\* useParams().goalId when the route has none
MissingGoalId == 0

PageGoalIds == {MissingGoalId, 1}

\* goal === null, error === null
NoGoal == "null"
NoPageError == "null"

DateOnly == <<"YYYY-MM-DD">>
DatetimeLocal == <<"YYYY-MM-DD", "T", "hh:mm:ss">>
DatetimeZ == <<"YYYY-MM-DD", "T", "hh:mm:ss", "Z">>
DatetimeOffset == <<"YYYY-MM-DD", "T", "hh:mm:ss", "+hh:mm">>

\* What the fields can hold: the value field nothing, 5, 0 or -5; the date
\* field nothing or the date picker's YYYY-MM-DD, and, where the browser
\* shows the date field as a text field, whatever was typed; the notes
\* nothing or a note between blanks.
FormValues == {<<>>, <<"5">>, <<"0">>, <<"-", "5">>}
FormDates == {<<>>, DateOnly, DatetimeLocal, DatetimeZ, DatetimeOffset}
FormNotes == {<<>>, <<" ", "n">>}

FormFields(value, date, notes) == [value |-> value, date |-> date, notes |-> notes]

\* defaultValues of useForm
FormDefaults == FormFields(<<>>, <<>>, <<>>)

\* Number(val) for the strings of FormValues
ToNumber(val) ==
    IF val = <<>> THEN JsNumber(0)
    ELSE IF val[1] = "-" THEN JsNumber(0 - ParseInt(Tail(val)))
    ELSE JsNumber(ParseInt(val))

\* The preprocess step of progressSchema.value
PreprocessValue(val) == IF val = <<>> THEN JsNaN ELSE ToNumber(val)

\* z.number().positive()
IsPositiveNumber(x) ==
    /\ IsNumberType(x)
    /\ ~IsNaN(x)
    /\ ~AtMostZero(x)

\* progressSchema.safeParse on the fields: the value a positive number,
\* the date not empty, the notes trimmed
ProgressSchema(fields) ==
    [success |-> /\ IsPositiveNumber(PreprocessValue(fields.value))
                 /\ Len(fields.date) >= 1,
     data |-> [value |-> PreprocessValue(fields.value),
               date |-> fields.date,
               notes |-> Trim(fields.notes)]]

\* { ...formData, goalId }
Payload(formData, goalId) ==
    [goalId |-> goalId, value |-> formData.value,
     date |-> formData.date, notes |-> formData.notes]

\* z.string().datetime({ offset: true }): date, T, time and a zone, the
\* zone being Z or an offset
IsDatetimeWithOffset(date) ==
    /\ Len(date) = 4
    /\ date[1] = "YYYY-MM-DD"
    /\ date[2] = "T"
    /\ date[3] = "hh:mm:ss"
    /\ date[4] \in {"Z", "+hh:mm"}

\* logProgressSchema.safeParse on the payload the page posts
LogProgressSchemaAccepts(payload) ==
    /\ ObjectIdIsValid(payload.goalId)
    /\ IsNumberType(payload.value) /\ payload.value.kind = "finite"
    /\ IsDatetimeWithOffset(payload.date)

\* What POST /api/progress answers to a payload: 400 when the schema
\* refuses it, else the entry, a body without one, 404, 500; and in either
\* case 401 or no response at all
PostAnswers(payload) ==
    {ApiHttp(401, "Authentication required."), ApiNetwork} \cup
    (IF LogProgressSchemaAccepts(payload)
     THEN {ApiOk(NoUser), ApiRefused(""), ApiHttp(404, "Goal not found."), ApiHttp(500, "")}
     ELSE {ApiHttp(400, "Invalid progress data provided.")})

\* The progress entries of a response
PageEntries(n) == [i \in 1..n |-> i]

\* What GET /api/goals/:goalId answers: the goal with its entries, the goal
\* with no list of entries, or a failure
GoalAnswer(api, goal, entries) == [api |-> api, goal |-> goal, entries |-> entries]

GoalAnswers ==
    {GoalAnswer(ApiOk(NoUser), "goal", PageEntries(n)) : n \in 0..MaxPageEntries} \cup
    {GoalAnswer(api, NoGoal, <<>>) :
        api \in {ApiRefused(""), ApiHttp(404, "Goal not found."), ApiNetwork}}

PageState(goal, progressEntries, isLoading, error, isSubmittingProgress, submitProgressError) ==
    [goal |-> goal, progressEntries |-> progressEntries, isLoading |-> isLoading,
     error |-> error, isSubmittingProgress |-> isSubmittingProgress,
     submitProgressError |-> submitProgressError]

\* The values of useState() at the first render
PageInitial == PageState(NoGoal, <<>>, TRUE, NoPageError, FALSE, NoPageError)

\* The page shows the form: not loading, no error, a goal
FormRendered(state) ==
    /\ ~state.isLoading
    /\ state.error = NoPageError
    /\ state.goal # NoGoal

\* fetchGoalDetails up to its await
FetchStart(state, goalId) ==
    IF goalId = MissingGoalId
    THEN [state EXCEPT !.error = "Invalid Goal ID.", !.isLoading = FALSE]
    ELSE [state EXCEPT !.isLoading = TRUE, !.error = NoPageError]

\* fetchGoalDetails from its await on: try, catch, finally
FetchSettle(state, answer) ==
    IF answer.api.kind = "ok"
    THEN [state EXCEPT !.goal = answer.goal,
                       !.progressEntries = answer.entries,
                       !.error = NoPageError,
                       !.isLoading = FALSE]
    ELSE [state EXCEPT !.error = ErrorMessage(answer.api, "Failed to fetch goal details."),
                       !.goal = NoGoal,
                       !.progressEntries = <<>>,
                       !.isLoading = FALSE]

\* handleProgressSubmit up to its await
SubmitStart(state, goalId) ==
    IF goalId = MissingGoalId
    THEN [state EXCEPT !.submitProgressError = "Cannot log progress: Goal ID is missing."]
    ELSE [state EXCEPT !.isSubmittingProgress = TRUE, !.submitProgressError = NoPageError]

\* (mutant) the catch block also drops what was loaded
SubmitCatch_DropsLoaded(state, answer) ==
    [state EXCEPT !.submitProgressError = ErrorMessage(answer, "Failed to log progress."),
                  !.goal = NoGoal,
                  !.progressEntries = <<>>,
                  !.isSubmittingProgress = FALSE]

\* handleProgressSubmit's catch and finally
SubmitCatch(state, answer) ==
    [state EXCEPT !.submitProgressError = ErrorMessage(answer, "Failed to log progress."),
                  !.isSubmittingProgress = FALSE]

\* handleProgressSubmit after await fetchGoalDetails(), and its finally
SubmitSettle(state) ==
    [state EXCEPT !.submitProgressError = NoPageError,
                  !.isSubmittingProgress = FALSE]

\* What the fields hold once the page shows a state: a form that is not
\* rendered has no fields, and one rendered anew has the default values
FieldsShown(state, fields) == IF FormRendered(state) THEN fields ELSE FormDefaults

\* reset() of useForm
Reset == FormDefaults

\* A position of the page's handlers and the payload posted
PageCall(pc, payload) == [pc |-> pc, payload |-> payload]

NoPayload == Payload(FormDefaults, MissingGoalId)

\* The last submission: the fields it was made with and how it ended
Submission(outcome, fields) == [outcome |-> outcome, fields |-> fields]

PageInit ==
    /\ pageGoalId \in PageGoalIds
    /\ page = PageInitial
    /\ pageCall = PageCall("unmounted", NoPayload)
    /\ form = FormDefaults
    /\ formSubmitted = 0
    /\ pageLast = Submission("none", FormDefaults)

PageUnused ==
    /\ pageGoalId = MissingGoalId
    /\ page = PageInitial
    /\ pageCall = PageCall("unmounted", NoPayload)
    /\ form = FormDefaults
    /\ formSubmitted = 0
    /\ pageLast = Submission("none", FormDefaults)

\* The effect of the first render: fetchGoalDetails()
PageMount ==
    /\ pageCall.pc = "unmounted"
    /\ page' = FetchStart(page, pageGoalId)
    /\ pageCall' = PageCall(IF pageGoalId = MissingGoalId THEN "idle" ELSE "fetching", NoPayload)
    /\ UNCHANGED <<pageGoalId, form, formSubmitted, pageLast, serverVars, calcVars, histVars, ctxVars>>

\* The GET of the first render is answered
PageFetchAnswer ==
    /\ pageCall.pc = "fetching"
    /\ \E answer \in GoalAnswers :
        /\ page' = FetchSettle(page, answer)
        /\ form' = FieldsShown(page', form)
    /\ pageCall' = PageCall("idle", NoPayload)
    /\ UNCHANGED <<pageGoalId, formSubmitted, pageLast, serverVars, calcVars, histVars, ctxVars>>

\* The user fills in the fields
FormEdit ==
    /\ pageCall.pc = "idle"
    /\ FormRendered(page)
    /\ ~page.isSubmittingProgress
    /\ \E value \in FormValues, date \in FormDates, notes \in FormNotes :
        form' = FormFields(value, date, notes)
    /\ UNCHANGED <<pageGoalId, page, pageCall, formSubmitted, pageLast, serverVars, calcVars, histVars, ctxVars>>

\* The user presses Log Progress: handleSubmit validates the fields and,
\* if they pass, processSubmit calls handleProgressSubmit, which runs up
\* to its POST
FormSubmit ==
    /\ pageCall.pc = "idle"
    /\ FormRendered(page)
    /\ ~page.isSubmittingProgress
    /\ formSubmitted < MaxSubmissions
    /\ formSubmitted' = formSubmitted + 1
    /\ LET parsed == ProgressSchema(form) IN
        IF ~parsed.success
        THEN /\ pageLast' = Submission("invalid", form)
             /\ UNCHANGED <<page, pageCall, form>>
        ELSE IF pageGoalId = MissingGoalId
        THEN /\ page' = SubmitStart(page, pageGoalId)
             /\ form' = Reset
             /\ pageLast' = Submission("failed", form)
             /\ UNCHANGED pageCall
        ELSE /\ page' = SubmitStart(page, pageGoalId)
             /\ pageCall' = PageCall("posting", Payload(parsed.data, pageGoalId))
             /\ pageLast' = Submission("posting", form)
             /\ UNCHANGED form
    /\ UNCHANGED <<pageGoalId, serverVars, calcVars, histVars, ctxVars>>

\* The POST is answered with the entry: handleProgressSubmit calls
\* fetchGoalDetails(), which runs up to its GET; the page shows the spinner
\* in place of the form
PagePostOk ==
    /\ pageCall.pc = "posting"
    /\ \E answer \in PostAnswers(pageCall.payload) :
        /\ answer.kind = "ok"
        /\ page' = FetchStart(page, pageGoalId)
    /\ pageCall' = PageCall("refetching", pageCall.payload)
    /\ form' = FieldsShown(page', form)
    /\ UNCHANGED <<pageGoalId, formSubmitted, pageLast, serverVars, calcVars, histVars, ctxVars>>

\* The POST fails: handleProgressSubmit's catch and finally run and it
\* returns; processSubmit's await is over and it calls reset()
PagePostFailed ==
    /\ pageCall.pc = "posting"
    /\ \E answer \in PostAnswers(pageCall.payload) :
        /\ answer.kind # "ok"
        /\ page' = SubmitCatch(page, answer)
    /\ pageCall' = PageCall("idle", NoPayload)
    /\ form' = Reset
    /\ pageLast' = Submission("failed", pageLast.fields)
    /\ UNCHANGED <<pageGoalId, formSubmitted, serverVars, calcVars, histVars, ctxVars>>

\* The GET of the refresh is answered: fetchGoalDetails settles,
\* handleProgressSubmit clears the submission error and returns, and
\* processSubmit calls reset()
PageRefetchAnswer ==
    /\ pageCall.pc = "refetching"
    /\ \E answer \in GoalAnswers :
        page' = SubmitSettle(FetchSettle(page, answer))
    /\ pageCall' = PageCall("idle", NoPayload)
    /\ form' = Reset
    /\ pageLast' = Submission("succeeded", pageLast.fields)
    /\ UNCHANGED <<pageGoalId, formSubmitted, serverVars, calcVars, histVars, ctxVars>>

NextPage ==
    \/ PageMount
    \/ PageFetchAnswer
    \/ FormEdit
    \/ FormSubmit
    \/ PagePostOk
    \/ PagePostFailed
    \/ PageRefetchAnswer

ClientUnused == CalcUnused /\ HistUnused /\ CtxUnused /\ PageUnused

(***************************************************************************)
(* The specifications.                                                     *)
(***************************************************************************)
InitMw == MwInit /\ DbUnused /\ AuthUnused /\ GoalUnused /\ ClientUnused

SpecMw == InitMw /\ [][NextMw]_vars

InitDb == DbInit /\ MwUnused /\ AuthUnused /\ GoalUnused /\ ClientUnused

SpecDb == InitDb /\ [][NextDb]_vars

InitAuth == AuthInit /\ MwUnused /\ DbUnused /\ GoalUnused /\ ClientUnused

SpecAuth == InitAuth /\ [][NextAuth]_vars

InitGoals == GoalInit /\ MwUnused /\ DbUnused /\ AuthUnused /\ ClientUnused

SpecGoals == InitGoals /\ [][NextGoals]_vars

ServerUnused == MwUnused /\ DbUnused /\ AuthUnused /\ GoalUnused

InitCalc == CalcInit /\ HistUnused /\ CtxUnused /\ PageUnused /\ ServerUnused

SpecCalc == InitCalc /\ [][NextCalc]_vars

InitHist == HistInit /\ CalcUnused /\ CtxUnused /\ PageUnused /\ ServerUnused

SpecHist == InitHist /\ [][NextHist]_vars

InitCtx == CtxInit /\ CalcUnused /\ HistUnused /\ PageUnused /\ ServerUnused

SpecCtx == InitCtx /\ [][NextCtx]_vars

InitPage == PageInit /\ CalcUnused /\ HistUnused /\ CtxUnused /\ ServerUnused

SpecPage == InitPage /\ [][NextPage]_vars

(***************************************************************************)
(* Claims about ProgressHistory (checked under SpecHist).                  *)
(***************************************************************************)
\* The entry's date is present and denotes a date
HasValidDate(entry) ==
    \/ entry.date.type = "date" /\ entry.date.time # InvalidTime
    \/ entry.date.type = "string" /\ ParseISO(entry.date.text) # InvalidTime

DateOf(entry) ==
    IF entry.date.type = "date" THEN entry.date.time ELSE ParseISO(entry.date.text)

\* The position of the entry in the caller's list (ids are the positions)
InputIndex(entry) == CHOOSE i \in 1..Len(histProps.entries) : histProps.entries[i] = entry

IsPermutation(items, entries) ==
    /\ Len(items) = Len(entries)
    /\ \E f \in [1..Len(items) -> 1..Len(items)] :
          /\ \A i, j \in 1..Len(items) : f[i] = f[j] => i = j
          /\ \A i \in 1..Len(items) : items[i] = entries[f[i]]

HistOrdered(items) ==
    \A i, j \in 1..Len(items) : i < j =>
        /\ HasValidDate(items[j]) => HasValidDate(items[i])
        /\ (HasValidDate(items[i]) /\ HasValidDate(items[j])) => DateOf(items[i]) >= DateOf(items[j])
        /\ (~HasValidDate(items[i]) /\ ~HasValidDate(items[j])) => InputIndex(items[i]) < InputIndex(items[j])

\* C13: what ProgressHistory renders is a permutation of the list it was
\* given, with the validly dated entries first, newest first, and the
\* entries without a valid date after them in their input order; the list
\* of the caller is left as it was; a missing or empty list renders the
\* empty-state message.
C13_HistoryOrder ==
    /\ [](histView.rendered =>
            IF ~histProps.present \/ histProps.entries = <<>>
            THEN histView.message = EmptyStateMessage /\ histView.items = <<>>
            ELSE /\ histView.message = ""
                 /\ IsPermutation(histView.items, histProps.entries)
                 /\ HistOrdered(histView.items))
    /\ [][histProps' = histProps]_vars

C13_Witness ==
    /\ histView.rendered
    /\ Len(histProps.entries) = 3
    /\ histProps.entries[1].date = HistString("not a date")
    /\ histProps.entries[2].date = HistString("2024-01-01")
    /\ histProps.entries[3].date = HistDateObject(3)
    /\ histView.items = <<histProps.entries[3], histProps.entries[2], histProps.entries[1]>>

(***************************************************************************)
(* Claims about the authentication context (checked under SpecCtx).        *)
(***************************************************************************)
\* The call in slot p resumes in this step
CtxResumed(p, pc) == ctxCalls[p].pc = pc /\ ctxCalls'[p].pc # pc

\* C14: whenever a logout() call ends, whatever the state it ran in and
\* whether the logout request succeeded or failed, the user is absent, the
\* authenticated flag is false and '/login' was the route pushed; the call
\* returns, it never throws.
C14_LogoutClears ==
    /\ [][\A p \in CtxSlots : CtxResumed(p, "awaitLogout") =>
            /\ ctx'.user = NoUser
            /\ ~ctx'.isAuthenticated
            /\ ctxNav' = Append(ctxNav, "/login")
            /\ ctxCalls'[p].pc = "returned"]_vars
    /\ [](\A p \in CtxSlots : ctxCalls[p].op = "logout" => ctxCalls[p].pc # "threw")

\* A logout that started with a user signed in has ended
C14_Witness ==
    \E p \in CtxSlots :
        /\ ctxCalls[p].op = "logout"
        /\ ctxCalls[p].pc = "returned"
        /\ ctxCalls[p].closure.isAuthenticated
        /\ ctx.user = NoUser
        /\ ctxNav = <<"/login">>

\* C15: a login invoked while nobody is signed in, whose request succeeds
\* and whose profile check returns the user, ends with the user set, the
\* authenticated flag true, no error message and '/dashboard' pushed.
C15_LoginNavigates ==
    [][\A p \in CtxSlots :
          (/\ CtxResumed(p, "awaitLoginProfile")
           /\ ~ctxCalls[p].closure.isAuthenticated
           /\ ctxCalls[p].closure.user = NoUser
           /\ ctxCalls'[p].answer.kind = "ok"
           /\ ctxCalls'[p].answer.user \in CtxUsers)
          => /\ ctx'.user = ctxCalls'[p].answer.user
             /\ ctx'.isAuthenticated
             /\ ctx'.error = NoError
             /\ ctxNav' = Append(ctxNav, "/dashboard")]_vars

\* The call in slot p is waiting for an answer
CtxInFlight(p) == ctxCalls[p].pc \notin {"idle", "returned", "threw"}

\* The call in slot p ends in this step
CtxCompletes(p) == CtxInFlight(p) /\ ctxCalls'[p].pc \in {"returned", "threw"}

\* C22: the step that ends a call of login, signup, logout or the profile
\* check on mount leaves isLoading false, whatever the API answered; and
\* once calls have been made and none is in flight, isLoading is false.
C22_LoadingCleared ==
    /\ [][\A p \in CtxSlots : CtxCompletes(p) => ~ctx'.isLoading]_vars
    /\ []((ctxInvoked > 0 /\ \A p \in CtxSlots : ~CtxInFlight(p)) => ~ctx.isLoading)

\* A login whose request succeeded and whose profile check then failed has
\* ended, no call is in flight and isLoading is false.
C22_Witness ==
    /\ \E p \in CtxSlots :
          /\ ctxCalls[p].op = "login"
          /\ ctxCalls[p].pc = "returned"
          /\ ctxCalls[p].answer = ApiNetwork
          /\ ctx.error = "Login successful, but failed to load user data."
    /\ \A p \in CtxSlots : ~CtxInFlight(p)
    /\ ~ctx.isLoading

\* No call other than the one in slot p has been made
CtxAlone(p) == ctxInvoked = 1 /\ \A q \in CtxSlots : q # p => ctxCalls[q].op = "none"

\* C23: the profile check on mount returns and never throws; when its
\* request fails (401, another status, no response, success false, no user)
\* it ends with user null and isAuthenticated false and sets no error, so
\* that the error is absent when no other call has been made; it sets the
\* user and isAuthenticated exactly when the response carries a user.
C23_ProfileCheckFailure ==
    /\ [][\A p \in CtxSlots :
            CtxResumed(p, "awaitProfile") =>
              LET answer == ctxCalls'[p].answer IN
                /\ ctxCalls'[p].pc = "returned"
                /\ ctx'.error = ctx.error
                /\ CtxAlone(p) => ctx'.error = NoError
                /\ IF answer.kind = "ok" /\ answer.user \in CtxUsers
                   THEN ctx'.user = answer.user /\ ctx'.isAuthenticated
                   ELSE ctx'.user = NoUser /\ ~ctx'.isAuthenticated]_vars
    /\ [](\A p \in CtxSlots : ctxCalls[p].op = "checkAuthState" => ctxCalls[p].pc # "threw")

\* The profile check on mount has ended on a network error
C23_Witness ==
    \E p \in CtxSlots :
      /\ ctxCalls[p].op = "checkAuthState"
      /\ ctxCalls[p].pc = "returned"
      /\ ctxCalls[p].answer = ApiNetwork
      /\ CtxAlone(p)
      /\ ctx = CtxState(NoUser, FALSE, FALSE, NoError)

\* C28: in every state between the steps of the context's functions,
\* isAuthenticated is true exactly when a user is set.
C28_FlagMatchesUser == ctx.isAuthenticated <=> ctx.user # NoUser

\* A login made while a user was signed in has failed and cleared both
C28_Witness ==
    \E p \in CtxSlots :
      /\ ctxCalls[p].op = "login"
      /\ ctxCalls[p].pc = "returned"
      /\ ctxCalls[p].closure.isAuthenticated
      /\ ctxCalls[p].answer.kind = "http"
      /\ ctx.user = NoUser
      /\ ~ctx.isAuthenticated

(***************************************************************************)
(* Claims about calculateCompletionPercentage (checked under SpecCalc).    *)
(***************************************************************************)
CalcCalled == calcResult # JsUndefined

\* The target is absent, non-numeric, zero or negative.
TargetInapplicable(t) ==
    \/ t \in {JsNull, JsUndefined, JsString, JsNaN, JsMinusInfinity}
    \/ t.kind = "finite" /\ t.num <= 0

\* The result is the number n.
CalcResultIs(n) == calcResult.kind = "finite" /\ calcResult.num = n * calcResult.den

\* C12: calculateCompletionPercentage(current, target) returns null exactly
\* when target is absent, non-numeric, zero or negative; every other result
\* is a number in [0, 100]; for finite numbers it is (current / target) * 100
\* clamped to [0, 100]; an absent or non-numeric current counts as 0; and
\* (50,100)=50, (150,100)=100, (-10,100)=0, (50,0)=null, (absent,100)=0.
C12_CompletionPercentage ==
    CalcCalled =>
      LET c == calcArgs[1]
          t == calcArgs[2]
          r == calcResult
      IN  /\ (r = JsNull) <=> TargetInapplicable(t)
          /\ r # JsNull =>
                /\ r.type = "number" /\ r.kind = "finite" /\ r.den > 0
                /\ 0 <= r.num /\ r.num <= 100 * r.den
          /\ (c.kind = "finite" /\ t.kind = "finite" /\ t.num > 0) =>
                IF c.num * 100 >= 100 * t.num THEN CalcResultIs(100)
                ELSE IF c.num <= 0 THEN CalcResultIs(0)
                ELSE r.num * t.num = c.num * 100 * r.den
          /\ (c \in {JsNull, JsUndefined, JsString, JsNaN} /\ ~TargetInapplicable(t)) =>
                CalcResultIs(0)
          /\ (c = JsNumber(50) /\ t = JsNumber(100)) => CalcResultIs(50)
          /\ (c = JsNumber(150) /\ t = JsNumber(100)) => CalcResultIs(100)
          /\ (c = JsNumber(-10) /\ t = JsNumber(100)) => CalcResultIs(0)
          /\ (c = JsNumber(50) /\ t = JsNumber(0)) => r = JsNull
          /\ (c = JsUndefined /\ t = JsNumber(100)) => CalcResultIs(0)

\* calculateCompletionPercentage(150, 100) has returned 100.
C12_Witness ==
    /\ calcArgs = <<JsNumber(150), JsNumber(100)>>
    /\ CalcResultIs(100)

(***************************************************************************)
(* Claims about the goals, goal item and progress endpoints (checked under *)
(* SpecGoals).                                                             *)
(***************************************************************************)
\* The user a request is authenticated as: the user whose session cookie it
\* carries, and "" (no user) for any other cookie or when the server has no
\* secret to verify a cookie with.
Caller(req) ==
    IF goalSecret = ServerSecret /\ req.cookie \in SessionCookies THEN req.cookie.userId
    ELSE ""

\* Slot p takes the step; the request the step belongs to.
Stepped(p) == goalSlot'[p] # goalSlot[p]
StepReq(p) == IF goalSlot[p].pc = "idle" THEN goalSlot'[p].req ELSE goalSlot[p].req

GoalAnswered(p) == goalSlot[p].pc = "done"

\* C1 (goal isolation): a step of a GET, PUT or DELETE on /api/goals/:goalId
\* or of a GET on /api/goals, made for a request authenticated as user U,
\* removes or changes only goals owned by U and puts only goals owned by U in
\* its response; a request authenticated as nobody touches and returns none.
C1_GoalIsolation ==
    [][\A p \in GoalSlots :
         (Stepped(p) /\ StepReq(p).op \in {"GET", "PUT", "DELETE", "LIST"}) =>
           LET u == Caller(StepReq(p)) IN
             /\ \A g \in goals \ goals' : g.userId = u
             /\ \A g \in goals' \ goals : g.userId = u
             /\ \A g \in goalSlot'[p].resp.goals : g.userId = u]_vars

\* Both users own a goal, and a GET on /api/goals has answered with the
\* caller's goals.
C1_Witness ==
    \E p \in GoalSlots :
      /\ GoalAnswered(p)
      /\ goalSlot[p].req.op = "LIST"
      /\ goalSlot[p].resp.status = 200
      /\ goalSlot[p].resp.goals # {}
      /\ \E g \in goals : g.userId # Caller(goalSlot[p].req)

\* What the handler of a request on /api/goals/:goalId does to its first
\* return or await, when no storage call fails.
ItemAnswer(coll, secret, req) ==
    CASE req.op = "GET" -> ItemGET(coll, secret, req, "none")
      [] req.op = "PUT" -> ItemPUT(coll, secret, req, "none")
      [] req.op = "DELETE" -> ItemDELETE(coll, secret, req, "none")

\* C2 (non-disclosure): when a GET, a PUT with a valid non-empty body or a
\* DELETE on /api/goals/:goalId arrives from user U, what its handler does
\* for a goal id that exists but is owned by another user is what it does
\* for a well formed goal id that does not exist: the same response, 404
\* 'Goal not found or you do not have permission.', and the same (unchanged)
\* storage; and the request itself, if it names a well formed id that is not
\* the id of a goal of U and no storage call fails, is answered with that
\* 404 and changes no goal.
C2_NonDisclosure ==
    [][\A p \in GoalSlots :
         LET req == goalSlot'[p].req
             u == Caller(req)
         IN  ( /\ Stepped(p)
               /\ goalSlot[p].pc = "idle"
               /\ req.op \in {"GET", "PUT", "DELETE"}
               /\ u # ""
               /\ req.op = "PUT" => req.body \in GoalBodies )
             => /\ \A g \in goals, n \in RequestGoalIds :
                     (g.userId # u /\ ObjectIdIsValid(n) /\ ~(\E h \in goals : h.id = n)) =>
                       LET other == ItemAnswer(goals, goalSecret, [req EXCEPT !.goalId = g.id])
                           none == ItemAnswer(goals, goalSecret, [req EXCEPT !.goalId = n])
                       IN  other = none /\ other.resp = GoalNotFound /\ other.goals = goals
                /\ ( /\ ObjectIdIsValid(req.goalId)
                     /\ ~goalSlot'[p].fault
                     /\ ~(\E g \in goals : g.id = req.goalId /\ g.userId = u) )
                   => /\ goalSlot'[p].pc = "done"
                      /\ goalSlot'[p].resp = GoalNotFound
                      /\ goals' = goals]_vars

\* A PUT with a valid body for a goal that exists and is owned by another
\* user has been answered.
C2_Witness ==
    \E p \in GoalSlots :
      /\ GoalAnswered(p)
      /\ goalSlot[p].req.op = "PUT"
      /\ goalSlot[p].req.body \in GoalBodies
      /\ Caller(goalSlot[p].req) # ""
      /\ \E g \in goals : g.id = goalSlot[p].req.goalId /\ g.userId # Caller(goalSlot[p].req)
      /\ goalSlot[p].resp.status = 404

\* C16 (empty and unknown updates): a PUT on /api/goals/:goalId from an
\* authenticated caller with a well formed goal id, once the database is
\* connected, is answered at once with 400 'No update data provided.' when
\* its body is {} and with 400 'Invalid goal update data provided.' when its
\* body has a key the schema does not know; in both cases no query is made
\* and the goals are as they were.
C16_EmptyUpdate ==
    [][\A p \in GoalSlots :
         LET req == goalSlot'[p].req IN
           ( /\ Stepped(p)
             /\ goalSlot[p].pc = "idle"
             /\ req.op = "PUT"
             /\ Caller(req) # ""
             /\ ObjectIdIsValid(req.goalId)
             /\ goalSlot'[p].resp # ConnectFailed
             /\ req.body = NoBody \/ ~(Keys(req.body) \subseteq GoalKeys) )
           => /\ goalSlot'[p].pc = "done"
              /\ ~goalSlot'[p].fault
              /\ goalSlot'[p].resp =
                    IF req.body = NoBody THEN GoalError(400, "No update data provided.")
                    ELSE GoalError(400, "Invalid goal update data provided.")
              /\ goals' = goals]_vars

\* A PUT with the body {} for a goal of the caller has been answered.
C16_Witness ==
    \E p \in GoalSlots :
      /\ GoalAnswered(p)
      /\ goalSlot[p].req.op = "PUT"
      /\ goalSlot[p].req.body = NoBody
      /\ \E g \in goals : g.id = goalSlot[p].req.goalId /\ g.userId = Caller(goalSlot[p].req)
      /\ goalSlot[p].resp.message = "No update data provided."

\* C17 (no entry for a deleted goal): whenever POST /api/progress inserts
\* an entry, in any interleaving with DELETE /api/goals/:goalId, the goal the
\* entry references is in the goals collection and owned by the requester.
C17_EntryOnlyForLiveGoal ==
    [][\A p \in GoalSlots :
         (goalSlot[p].pc = "create" /\ progress' # progress) =>
           \E g \in goals : g.id = goalSlot[p].req.goalId /\ g.userId = goalSlot[p].userId]_vars

\* C18 (cascade failure): when the deleteMany of a DELETE whose goal was
\* deleted fails, the request is answered 204, the goal is still gone and
\* the progress entries are all still stored; and a request in which any
\* other storage call failed is answered with a failure, status 400 or
\* above and success false.
C18_CascadeFailure ==
    [][\A p \in GoalSlots :
         (Stepped(p) /\ goalSlot'[p].pc = "done" /\ goalSlot'[p].fault) =>
           IF goalSlot[p].pc = "cascade"
           THEN /\ goalSlot'[p].resp.status = 204
                /\ goals' = goals
                /\ \A g \in goals' : g.id # goalSlot[p].req.goalId
                /\ progress' = progress
           ELSE /\ goalSlot'[p].resp.status >= 400
                /\ ~goalSlot'[p].resp.success]_vars

\* A DELETE whose cascade failed has been answered 204 and an entry of the
\* deleted goal is still stored.
C18_Witness ==
    \E p \in GoalSlots :
      /\ GoalAnswered(p)
      /\ goalSlot[p].req.op = "DELETE"
      /\ goalSlot[p].fault
      /\ goalSlot[p].resp.status = 204
      /\ \E e \in progress : e.goalId = goalSlot[p].req.goalId
      /\ \A g \in goals : g.id # goalSlot[p].req.goalId

\* C21 (one verification for all endpoints): for every cookie a request can
\* carry, with or without a configured secret, getVerifiedUserId of the goal
\* item endpoint and getVerifiedUserId of the progress endpoint return what
\* getVerifiedUserId of the goals collection endpoint returns: the same
\* userId or the same refusal.
C21_SameVerification ==
    \A cookie \in GoalCookies :
      /\ GetVerifiedUserId_Item(cookie, goalSecret, GoalNow)
            = GetVerifiedUserId_Goals(cookie, goalSecret, GoalNow)
      /\ GetVerifiedUserId_Progress(cookie, goalSecret, GoalNow)
            = GetVerifiedUserId_Goals(cookie, goalSecret, GoalNow)

\* C26 (owner never changes): every stored goal is owned by the caller
\* whose POST /api/goals created it, also when the body of that POST named
\* another userId; no step changes the userId of a goal, and a PUT changes
\* nothing but the goal's other fields.
C26_OwnerNeverChanges ==
    /\ [](\A g \in goals : g.id \in 1..Len(created) /\ created[g.id] = g.userId)
    /\ [][/\ \A g \in goals, h \in goals' : g.id = h.id => h.userId = g.userId
          /\ \A p \in GoalSlots :
                (Stepped(p) /\ StepReq(p).op = "POST") =>
                  \A g \in goals' \ goals :
                     Caller(StepReq(p)) # "" /\ g.userId = Caller(StepReq(p))]_vars

\* A POST /api/goals whose body names another user as userId has been
\* answered 201 with a goal owned by the caller.
C26_Witness ==
    \E p \in GoalSlots :
      /\ GoalAnswered(p)
      /\ goalSlot[p].req.op = "POST"
      /\ "userId" \in Keys(goalSlot[p].req.body)
      /\ CastUserId(Field(goalSlot[p].req.body, "userId")) # Caller(goalSlot[p].req)
      /\ goalSlot[p].resp.status = 201
      /\ \A g \in goalSlot[p].resp.goals : g.userId = Caller(goalSlot[p].req)

\* C27 (entries belong to the goal's owner): in every state a stored
\* progress entry whose goal is stored carries the userId of that goal's
\* owner; and every entry a GET /api/goals/:goalId puts in its response
\* carries the caller's userId and the id of the requested goal.
C27_EntriesOfOwner ==
    /\ [](\A e \in progress, g \in goals : e.goalId = g.id => e.userId = g.userId)
    /\ [][\A p \in GoalSlots :
            (Stepped(p) /\ StepReq(p).op = "GET") =>
              \A e \in goalSlot'[p].resp.entries :
                 /\ Caller(StepReq(p)) # ""
                 /\ e.userId = Caller(StepReq(p))
                 /\ e.goalId = StepReq(p).goalId]_vars

\* A GET /api/goals/:goalId has returned an entry of the caller while an
\* entry of another user's goal is stored.
C27_Witness ==
    \E p \in GoalSlots :
      /\ GoalAnswered(p)
      /\ goalSlot[p].req.op = "GET"
      /\ goalSlot[p].resp.entries # {}
      /\ \E e \in progress : e.userId # Caller(goalSlot[p].req)

\* The request in slot p writes to storage in this step.
GoalWrites(p) == Stepped(p) /\ (goals' # goals \/ progress' # progress)

AuthWrites(p) == authSlot'[p] # authSlot[p] /\ users' # users

\* C29 (failures change nothing): a step of a request that changes the
\* stored goals or progress entries either answers the request with a status
\* below 400 or is the deleteOne of a DELETE, whose next step answers 204;
\* a step of a request to the auth endpoint that changes the stored users
\* answers it with a status below 400.  So a request answered with 400 or
\* above has changed nothing.
C29_FailuresChangeNothing ==
    [][/\ \A p \in GoalSlots :
            /\ GoalWrites(p) =>
                  \/ goalSlot'[p].pc = "done" /\ goalSlot'[p].resp.status \in 200..399
                  \/ goalSlot'[p].pc = "cascade"
            /\ (Stepped(p) /\ goalSlot[p].pc = "cascade") =>
                  goalSlot'[p].pc = "done" /\ goalSlot'[p].resp.status = 204
            /\ (Stepped(p) /\ goalSlot'[p].pc = "done" /\ goalSlot'[p].resp.status >= 400) =>
                  goals' = goals /\ progress' = progress
       /\ (goals' # goals \/ progress' # progress) => \E p \in GoalSlots : GoalWrites(p)
       /\ \A p \in AuthSlots :
            /\ AuthWrites(p) =>
                  authSlot'[p].pc = "done" /\ authSlot'[p].resp.status \in 200..399
            /\ (authSlot'[p] # authSlot[p] /\ authSlot'[p].pc = "done"
                  /\ authSlot'[p].resp.status >= 400) => users' = users
       /\ users' # users => \E p \in AuthSlots : AuthWrites(p)]_vars

\* A POST /api/progress whose insert failed has been answered 500, after it
\* had passed the ownership check, and nothing was stored.
C29_Witness ==
    \E p \in GoalSlots :
      /\ GoalAnswered(p)
      /\ goalSlot[p].req.op = "LOG"
      /\ goalSlot[p].fault
      /\ goalSlot[p].found # {}
      /\ goalSlot[p].resp.status = 500
      /\ progress = {}

\* C3 (progress ownership): a POST /api/progress authenticated as U with a
\* valid payload, whose goalId names no goal owned by U and whose storage
\* calls do not fail, ends with 404 and leaves the progress collection as it
\* was; progress entries are inserted by POST /api/progress only, and an
\* entry it inserts carries userId U and the id of a goal that was inserted
\* with owner U, and the response is 201 with that entry.
C3_ProgressOwnership ==
    [][/\ \A p \in GoalSlots :
            (Stepped(p) /\ StepReq(p).op = "LOG") =>
              LET req == StepReq(p)
                  u == Caller(req)
              IN  /\ ( /\ goalSlot[p].pc = "idle"
                       /\ u # ""
                       /\ LogProgressSchema(req.goalId, req.body).success
                       /\ ~goalSlot'[p].fault
                       /\ ~(\E g \in goals : g.id = req.goalId /\ g.userId = u) )
                     => /\ goalSlot'[p].pc = "done"
                        /\ goalSlot'[p].resp = GoalNotFound
                        /\ progress' = progress
                  /\ \A e \in progress' \ progress :
                       /\ u # ""
                       /\ e.userId = u
                       /\ e.goalId \in 1..Len(created)
                       /\ created[e.goalId] = u
                       /\ goalSlot'[p].resp.status = 201
                  /\ goalSlot'[p].resp.status = 201 =>
                       /\ goalSlot'[p].resp.entries # {}
                       /\ goalSlot'[p].resp.entries = progress' \ progress
       /\ progress' \ progress # {} =>
            \E p \in GoalSlots : Stepped(p) /\ StepReq(p).op = "LOG"]_vars

\* A POST /api/progress with a valid payload naming a goal of another user
\* has been answered 404 while that user has logged progress for the goal.
C3_Witness ==
    \E p \in GoalSlots :
      /\ GoalAnswered(p)
      /\ goalSlot[p].req.op = "LOG"
      /\ goalSlot[p].req.body = ProgressBody
      /\ Caller(goalSlot[p].req) # ""
      /\ \E g \in goals : g.id = goalSlot[p].req.goalId /\ g.userId # Caller(goalSlot[p].req)
      /\ \E e \in progress : e.goalId = goalSlot[p].req.goalId
      /\ goalSlot[p].resp.status = 404

\* C4 (cascade deletion): a DELETE /api/goals/:goalId by the owner of an
\* existing goal, whose deleteOne does not fail, removes the goal and goes on
\* to the cascade, whether or not the goal has progress entries; the cascade
\* step answers 204, and when it did not fail neither the goal nor any
\* progress entry with that goal id is in storage at the response.
C4_CascadeDeletion ==
    [][\A p \in GoalSlots :
         (Stepped(p) /\ StepReq(p).op = "DELETE") =>
           LET req == StepReq(p)
               u == Caller(req)
           IN  /\ ( /\ goalSlot[p].pc = "idle"
                    /\ u # ""
                    /\ ~goalSlot'[p].fault
                    /\ \E g \in goals : g.id = req.goalId /\ g.userId = u )
                  => /\ goalSlot'[p].pc = "cascade"
                     /\ ~(\E g \in goals' : g.id = req.goalId)
               /\ goalSlot[p].pc = "cascade" =>
                    /\ goalSlot'[p].pc = "done"
                    /\ goalSlot'[p].resp = NoContent
                    /\ ~goalSlot'[p].fault =>
                         /\ ~(\E g \in goals' : g.id = req.goalId)
                         /\ ~(\E e \in progress' : e.goalId = req.goalId)
               /\ goalSlot'[p].resp.status = 204 => goalSlot[p].pc = "cascade"]_vars

\* A DELETE has answered 204 after its cascade removed progress entries.
C4_Witness ==
    \E p \in GoalSlots :
      /\ GoalAnswered(p)
      /\ goalSlot[p].req.op = "DELETE"
      /\ goalSlot[p].resp.status = 204
      /\ ~goalSlot[p].fault
      /\ goalSlot[p].deleted > 0

(***************************************************************************)
(* Claims about connectDB (checked under SpecDb).                          *)
(***************************************************************************)
Succeeded == { a \in Attempts : attempts[a].status = "fulfilled" }

StartsAttempt == \E a \in Attempts : attempts[a].status = "unused" /\ attempts'[a].status = "pending"

\* C10: for any interleaving of connectDB() calls, failed attempts included,
\* at most one connection attempt is pending at any time, and once an attempt
\* has succeeded no further attempt is started.
C10_SingleAttempt ==
    /\ [](Cardinality(Pending) <= 1)
    /\ [][Succeeded # {} => ~StartsAttempt]_vars

\* The continuation of caller c's `await cached.promise` runs in this step.
Resumed(c) ==
    /\ callers[c].pc \in {"awaitNew", "awaitJoin"}
    /\ callers'[c].pc # callers[c].pc

\* A queued continuation belongs to a caller that awaits attempt a.
ResumeQueued(a) ==
    \E i \in 1..Len(jobs) :
      /\ jobs[i].kind = "resume"
      /\ callers[jobs[i].caller].awaiting = a

\* C11: when an attempt has failed, the continuation of every caller that
\* awaited it throws, leaves no in-flight attempt in the cache and leaves the
\* cached connection as it was; a failed attempt is never cached as the
\* connection; while a failed attempt is still the cached promise the
\* continuation that clears it is queued; and a call that finds the cache
\* empty starts a new attempt.
C11_FailureClearsCache ==
    /\ [][\A c \in Callers :
            (Resumed(c) /\ attempts[callers[c].awaiting].status = "rejected") =>
              /\ callers'[c].pc = "threw"
              /\ cached'.promise = 0
              /\ cached'.conn = cached.conn]_vars
    /\ [](cached.conn # 0 => attempts[cached.conn].status = "fulfilled")
    /\ []((cached.promise # 0 /\ attempts[cached.promise].status = "rejected")
            => ResumeQueued(cached.promise))
    /\ [][\A c \in Callers :
            ( /\ callers[c].pc = "scheduled"
              /\ callers'[c].pc # "scheduled"
              /\ cached.conn = 0
              /\ cached.promise = 0 )
            => /\ callers'[c].pc = "awaitNew"
               /\ StartsAttempt
               /\ cached'.promise = callers'[c].awaiting]_vars

\* An attempt failed, the caller that started it and a caller that joined it
\* have both thrown, and a later call has started the next attempt.
C11_Witness ==
    /\ attempts[1].status = "rejected"
    /\ Cardinality({ c \in Callers : callers[c].pc = "threw" }) >= 2
    /\ cached.promise = 2
    /\ attempts[2].status = "pending"
    /\ cached.conn = 0

(***************************************************************************)
(* Claims about POST /api/auth (checked under SpecAuth).                   *)
(***************************************************************************)
\* The step answers the signup in slot p, whose body passes signupSchema,
\* and no storage call of the step failed.
SignupAnswered(p) ==
    /\ authSlot[p].pc # "done"
    /\ authSlot'[p].pc = "done"
    /\ authSlot'[p].body.parse
    /\ authSlot'[p].body.action = "signup"
    /\ SignupValid(authSlot'[p].body)
    /\ ~authSlot'[p].fault

\* The address is registered already, up to letter case.
Registered(email) == \E u \in users : ToLower(u.email) = ToLower(Trim(email))

\* C7: at most one user record exists per lowercase-normalized email; a
\* signup for an address that is not registered responds 201 and stores one
\* record; a signup for an address that is registered already (up to letter
\* case) responds 409 'Email already in use.' and stores nothing, also when
\* the address was registered after the request's existence check.
C7_EmailUniqueness ==
    /\ [](\A u, v \in users : ToLower(u.email) = ToLower(v.email) => u = v)
    /\ [][\A p \in AuthSlots :
            SignupAnswered(p) =>
              IF Registered(authSlot'[p].body.email)
              THEN /\ authSlot'[p].resp.status = 409
                   /\ authSlot'[p].resp.message = "Email already in use."
                   /\ users' = users
              ELSE /\ authSlot'[p].resp.status = 201
                   /\ Cardinality(users') = Cardinality(users) + 1
                   /\ \E u \in users' \ users :
                        u.email = ToLower(Trim(authSlot'[p].body.email))]_vars

\* Witness of C7: a signup that had passed the existence check was answered
\* 409 by the insert, another request having registered the address first.
C7_Witness ==
    \E p \in AuthSlots :
      /\ authSlot[p].pc = "done"
      /\ authSlot[p].body.action = "signup"
      /\ authSlot[p].step = "create"
      /\ ~authSlot[p].fault
      /\ authSlot[p].resp.status = 409
      /\ Registered(authSlot[p].body.email)

\* The login in slot p, whose body passes loginSchema, has been answered and
\* no storage or signing call failed.
LoginAnswered(p) ==
    /\ authSlot[p].pc = "done"
    /\ authSlot[p].body.parse
    /\ authSlot[p].body.action = "login"
    /\ LoginValid(authSlot[p].body)
    /\ ~authSlot[p].fault

\* The credentials of a body are those of a stored user.
CorrectCredentials(body) ==
    \E u \in users :
      /\ u.email = ToLower(Trim(body.email))
      /\ u.password = Hash(body.password)

InvalidCredentials ==
    [status |-> 401, success |-> FALSE, message |-> "Invalid email or password.",
     user |-> {}, cookies |-> {}]

\* The value is '<n><unit>': one or more digits and one of d, h, m, s.
IsDuration(expiresIn) ==
    /\ Len(expiresIn) >= 2
    /\ expiresIn[Len(expiresIn)] \in {"d", "h", "m", "s"}
    /\ \A i \in 1..(Len(expiresIn) - 1) : expiresIn[i] \in Digits

DurationCount(expiresIn) == ParseInt(SubSeq(expiresIn, 1, Len(expiresIn) - 1))

SecondsPerUnit(unit) ==
    CASE unit = "d" -> 86400 [] unit = "h" -> 3600 [] unit = "m" -> 60 [] unit = "s" -> 1

\* C20: a login with correct credentials, answered without a failing
\* storage or signing call on a server whose secret is configured, sets a
\* cookie whose max-age is n * 86400, n * 3600, n * 60 or n seconds for an
\* expiration value '<n>d', '<n>h', '<n>m', '<n>s' with n positive; when the
\* value is absent, has another form, or has n = 0, the login is answered
\* 500 and no cookie is set.
C20_CookieMaxAge ==
    \A p \in AuthSlots :
      (LoginAnswered(p) /\ CorrectCredentials(authSlot[p].body)) =>
        LET e == authEnv.jwtExpiresIn IN
          IF e # NoExpires /\ IsDuration(e) /\ DurationCount(e) > 0
          THEN authEnv.jwtSecret # NoSecret =>
                 /\ authSlot[p].resp.status = 200
                 /\ Cardinality(authSlot[p].resp.cookies) = 1
                 /\ \A c \in authSlot[p].resp.cookies :
                      c.maxAge = DurationCount(e) * SecondsPerUnit(e[Len(e)])
          ELSE /\ authSlot[p].resp.status = 500
               /\ authSlot[p].resp.cookies = {}

\* A login with correct credentials was answered with a cookie that lasts
\* 30 minutes, the server's expiration value being '30m'.
C20_Witness ==
    \E p \in AuthSlots :
      /\ LoginAnswered(p)
      /\ CorrectCredentials(authSlot[p].body)
      /\ authEnv.jwtExpiresIn = <<"3", "0", "m">>
      /\ \E c \in authSlot[p].resp.cookies : c.maxAge = 1800

\* C8: a login with a well-formed email and a non-empty password gets one
\* and the same response, 401 'Invalid email or password.' without cookie,
\* whether the email is unknown or the email is known and the password wrong.
C8_GenericLoginFailure ==
    \A p \in AuthSlots :
      (LoginAnswered(p) /\ ~CorrectCredentials(authSlot[p].body)) =>
        authSlot[p].resp = InvalidCredentials

\* Witness of C8: a login for a registered email with a wrong password was
\* answered 401.
C8_Witness ==
    \E p \in AuthSlots :
      /\ LoginAnswered(p)
      /\ Registered(authSlot[p].body.email)
      /\ ~CorrectCredentials(authSlot[p].body)
      /\ authSlot[p].resp.status = 401

\* C9: POST /api/auth sets the access_token cookie if and only if it answers
\* 200 to a login with correct credentials; that response carries the user's
\* id, name, email and timestamps and no password, and the cookie is
\* HttpOnly.  No signup response and no failed login sets a cookie.
C9_CookieOnlyOnLogin ==
    \A p \in AuthSlots :
      authSlot[p].pc = "done" =>
        LET body == authSlot[p].body
            resp == authSlot[p].resp
        IN  /\ (resp.cookies # {}) <=>
                 (body.action = "login" /\ resp.status = 200)
            /\ resp.status = 200 =>
                 /\ CorrectCredentials(body)
                 /\ \E u \in users :
                      /\ u.email = ToLower(Trim(body.email))
                      /\ resp.user =
                           {[id |-> u.id, name |-> u.name, email |-> u.email,
                             createdAt |-> u.createdAt, updatedAt |-> u.updatedAt]}
                 /\ \A c \in resp.cookies : c.name = "access_token" /\ c.httpOnly
                 /\ Cardinality(resp.cookies) = 1
            /\ body.action # "login" => resp.cookies = {}
            /\ resp.status \in {400, 401, 409, 500} => resp.cookies = {}

\* Witness of C9: a login was answered 200 with the session cookie.
C9_Witness ==
    \E p \in AuthSlots :
      /\ authSlot[p].pc = "done"
      /\ authSlot[p].body.action = "login"
      /\ authSlot[p].resp.status = 200
      /\ authSlot[p].resp.cookies # {}

(***************************************************************************)
(* Claims about the middleware (checked under SpecMw).                     *)
(***************************************************************************)
\* The request in mwReq went through the middleware and mwResp answers it.
MwAnswered == mwResp.kind # "none" /\ MwMatches(mwReq.path)

MwIsReject(resp) ==
    \/ resp.kind = "json" /\ resp.status = 401
    \/ resp.kind = "redirect" /\ resp.location = "/login"

\* The token of mwReq as the claim classifies it, from the token's own
\* fields: signed with the configured secret and not yet expired.
MwTokenValid ==
    /\ mwReq.cookie.kind = "jwt"
    /\ mwReq.cookie.key = mwSecret
    /\ mwReq.cookie.exp > mwReq.at

MwCookiePresent == mwReq.cookie.kind \in {"garbage", "jwt"}

\* C5: on a matched path the outcome is the four-state machine's: no cookie
\* (absent, or an empty value, which is no token either) -> reject whether
\* or not the secret is configured; cookie and no secret -> 500; cookie,
\* secret and a token that does not verify -> reject; cookie, secret and a
\* valid token -> pass through; and a request passes through only then.
C5_FourStateMachine ==
    MwAnswered =>
      /\ ~MwCookiePresent => MwIsReject(mwResp)
      /\ (MwCookiePresent /\ mwSecret = NoSecret) =>
            (mwResp.kind = "json" /\ mwResp.status = 500)
      /\ (MwCookiePresent /\ mwSecret # NoSecret /\ ~MwTokenValid) =>
            MwIsReject(mwResp)
      /\ (MwCookiePresent /\ mwSecret # NoSecret /\ MwTokenValid) =>
            mwResp.kind = "next"
      /\ mwResp.kind = "next" =>
            (MwCookiePresent /\ mwSecret # NoSecret /\ MwTokenValid)

\* Witness of C5: a request without cookie was rejected although the secret
\* is not configured (the token check comes before the secret check).
C5_Witness ==
    /\ MwAnswered
    /\ mwReq.cookie.kind = "absent"
    /\ mwSecret = NoSecret
    /\ MwIsReject(mwResp)

MwRejectedCase ==
    \/ ~MwCookiePresent
    \/ MwCookiePresent /\ mwSecret # NoSecret /\ ~MwTokenValid

MwExpiredTokens == { t \in MwCookies : t.kind = "jwt" /\ t.key = mwSecret /\ t.exp <= mwNow }

\* C6: a rejected request (no cookie, expired token, invalid signature) gets
\* a 401 JSON failure envelope on a path that starts with /api/ and a
\* redirect to /login on any other path; an expired token gets the same
\* kind of response as a missing cookie on every matched path.
C6_RejectShape ==
    /\ (MwAnswered /\ MwRejectedCase) =>
          IF mwReq.path[1] = "api"
          THEN mwResp.kind = "json" /\ mwResp.status = 401 /\ mwResp.success = FALSE
          ELSE mwResp.kind = "redirect" /\ mwResp.location = "/login"
    /\ \A path \in MwPaths, t \in MwExpiredTokens :
          MwMatches(path) =>
            LET e == Middleware(path, t, mwSecret, mwNow)
                m == Middleware(path, NoCookie, mwSecret, mwNow)
            IN  e.kind = m.kind /\ e.status = m.status /\ e.location = m.location

\* C19: a request on a matched path that carries a session cookie, while
\* the signing secret is not configured, is answered with status 500 and a
\* JSON body with success false, on a page path as on an API path: it is
\* never redirected and never passed on to a handler.
C19_SecretMissing ==
    /\ (MwAnswered /\ MwCookiePresent /\ mwSecret = NoSecret) =>
          /\ mwResp.kind = "json"
          /\ mwResp.status = 500
          /\ mwResp.success = FALSE
          /\ mwResp.location # "/login"
          /\ mwResp.kind \notin {"redirect", "next"}
    /\ \A pagePath, apiPath \in MwPaths, c \in MwCookies :
          (MwMatches(pagePath) /\ MwMatches(apiPath) /\ ~IsApiPath(pagePath) /\ IsApiPath(apiPath)
             /\ c.kind \in {"garbage", "jwt"} /\ mwSecret = NoSecret)
          => Middleware(pagePath, c, mwSecret, mwNow) = Middleware(apiPath, c, mwSecret, mwNow)

\* Witness of C19: a request for a page with a token, answered 500 because
\* no secret is configured.
C19_Witness ==
    /\ MwAnswered
    /\ mwReq.path[1] = "dashboard"
    /\ mwReq.cookie.kind = "jwt"
    /\ mwSecret = NoSecret
    /\ mwResp.status = 500

\* Witness of C6: an expired token on a page path was redirected to /login.
C6_Witness ==
    /\ MwAnswered
    /\ mwReq.path[1] = "dashboard"
    /\ mwReq.cookie.kind = "jwt"
    /\ mwReq.cookie.key = mwSecret
    /\ mwReq.cookie.exp <= mwReq.at
    /\ mwResp.kind = "redirect"

(***************************************************************************)
(* Claims about the goal detail page and its form (checked under SpecPage). *)
(***************************************************************************)
\* The step on which the POST of a submission is answered
PostEnds == pageCall.pc = "posting" /\ pageCall'.pc # "posting"

\* C24: with a goal and its history loaded, the answer to a submission's
\* POST leaves the loaded goal and the loaded entries as they were; when
\* the submission failed the page-level error is unchanged too and the
\* submission error is set; when it succeeded the page is fetching the goal
\* details again, and what it then shows is what that fetch returned.
C24_SubmissionFrame ==
    [][/\ PostEnds =>
            /\ page.goal # NoGoal
            /\ page'.goal = page.goal
            /\ page'.progressEntries = page.progressEntries
            /\ IF pageLast'.outcome = "failed"
               THEN /\ page'.error = page.error
                    /\ page'.submitProgressError # NoPageError
                    /\ pageCall'.pc = "idle"
               ELSE /\ pageCall'.pc = "refetching"
                    /\ page'.isLoading
                    /\ page'.submitProgressError = NoPageError
       /\ (pageCall.pc = "refetching" /\ pageCall'.pc = "idle") =>
            \E answer \in GoalAnswers :
                /\ page'.goal = FetchSettle(page, answer).goal
                /\ page'.progressEntries = FetchSettle(page, answer).progressEntries
      ]_vars

\* Witness of C24: a submission failed on a page showing a goal with
\* entries, which are still there next to the submission error.
C24_Witness ==
    /\ pageLast.outcome = "failed"
    /\ page.goal # NoGoal
    /\ Len(page.progressEntries) > 0
    /\ page.error = NoPageError
    /\ page.submitProgressError # NoPageError

\* C25: when a submission ends in failure, the fields of the form hold the
\* values the user entered.
C25_FieldsKeptOnFailure ==
    [][(pageLast.outcome = "posting" /\ pageLast'.outcome = "failed")
          => form' = pageLast.fields]_vars

\* C30: the payload the page posts, made of fields that passed the form's
\* validation and the goalId, passes the progress endpoint's validation.
C30_PayloadAccepted ==
    pageCall.pc = "posting" => LogProgressSchemaAccepts(pageCall.payload)

====
